---- MODULE Spec2Model ----
(***************************************************************************)
(* Model of the storage-and-sort core: the external merge sorter           *)
(* (src/vdbesort.go), the cell parser (src/btree/cellinfo.go) and the      *)
(* b-tree cursor operations Balance / MoveToChild / Delete, the recursive  *)
(* mutex and the tokenizer loop of Parse.Run (src/btree/cursor.go).        *)
(***************************************************************************)
EXTENDS Integers, Sequences, FiniteSets, TLC

VARIABLES
    pSorter,    \* the VdbeSorter object of the cursor (NilSorter when absent)
    env,        \* temp files and the pending injected fault of the host
    written,    \* history: records accepted by SorterWrite, in call order
    output,     \* history: keys handed out by Rowkey, in call order
    srtRc,      \* return code of the last sorter operation
    bEof,       \* eof flag reported by the last Rewind / SorterNext
    phase,      \* position of the sorter's caller
    call,       \* history: the last sorter call made and its arguments
    cellPage,   \* the MemoryPage fields ParsePtr reads
    cellIn,     \* the cell handed to ParsePtr: its bytes and what they declare
    info,       \* the CellInfo filled in by ParsePtr
    btPages,    \* the pages of the b-tree file, by page number
    btCur,      \* the cursor Delete / Balance is called on
    btOthers,   \* the other cursors open on the shared cache
    btPc,       \* position of the b-tree caller: idle, balance, balanceReturn, done
    btRc,       \* rc of the running Balance, then of the finished operation
    balInfo,    \* history of the running Balance call: calls made, first error
    btOp,       \* the operation started: its name, key and iCellDepth
    btLog,      \* history: the changes Delete made, with the cursor states then
    btPre,      \* history: keys, pages and cursors before the operation
    btPins,     \* the references the cursor holds, by page number
    mtx,        \* the sqlite3_mutex: its pthread mutex (holder), nRef and owner
    thr,        \* per thread: position in its mutex call, rc, history of the call
    entered,    \* history: per thread, entries into the mutex not yet exited
    db,         \* the connection fields Parse.Run reads and writes
    pParse,     \* the Parse object: rc, zErrMsg, nErr, zTail
    run,        \* the running Parse.Run call: position, locals, tokens handed over
    cmpIn,      \* the arguments of a sorterCompare call
    cmpRes      \* the result of that call, once it was made

sorterVars == <<pSorter, env, written, output, srtRc, bEof, phase, call>>

cellVars == <<cellPage, cellIn, info>>

btVars == <<btPages, btCur, btOthers, btPc, btRc, balInfo, btOp, btLog, btPre, btPins>>

mutexVars == <<mtx, thr, entered>>

parseVars == <<db, pParse, run>>

cmpVars == <<cmpIn, cmpRes>>

vars == <<sorterVars, cellVars, btVars, mutexVars, parseVars, cmpVars>>

\* nil pointers, slices and arrays are the empty sequence; a nil file handle is
\* NoFile; a cursor without sorter holds NilSorter
Nil == <<>>
NoFile == 0
NilSorter == [isNil |-> TRUE]

SQLITE_OK == "SQLITE_OK"
SQLITE_ERROR == "SQLITE_ERROR"
SQLITE_NOMEM == "SQLITE_NOMEM"
SQLITE_IOERR == "SQLITE_IOERR"
SQLITE_IOERR_SHORT_READ == "SQLITE_IOERR_SHORT_READ"
SQLITE_CORRUPT == "SQLITE_CORRUPT"
GO_PANIC == "panic: index out of range"
\* outcome of a call that does not return
NO_RETURN == "no return"

(***************************************************************************)
(* Bounds of the sorter model.                                             *)
(***************************************************************************)
MaxRecords == 3      \* number of SorterWrite calls in one behaviour
MaxRecLen == 1       \* longest record, in bytes
MaxFail == 2         \* an injected fault hits one of the first MaxFail host calls
KeyInfoNField == 2   \* number of key fields compared when the rowid is omitted
MaxOutput == 80      \* number of SorterNext calls in one behaviour

ByteVals == {1, 2}   \* the bytes records are made of

SORTER_MIN_WORKING == 10
SORTER_MAX_MERGE_COUNT == 16
N_SLOTS == 64
ITER_ALLOC == 128
ITER_NREAD == 5

Min(a, b) == IF a < b THEN a ELSE b
Max(a, b) == IF a > b THEN a ELSE b

\* zero-padded read of a byte buffer (1-based)
At(buf, i) == IF i >= 1 /\ i <= Len(buf) THEN buf[i] ELSE 0

RECURSIVE SeqsUpTo(_, _)
SeqsUpTo(S, n) ==
    IF n = 0 THEN {<<>>}
    ELSE LET prev == SeqsUpTo(S, n - 1)
         IN prev \cup {Append(q, x) : q \in {r \in prev : Len(r) = n - 1}, x \in S}

Records == SeqsUpTo(ByteVals, MaxRecLen) \ {<<>>}

\* (mnPmaSize, mxPmaSize) pairs set up by sqlite3VdbeSorterInit, scaled down:
\* in-memory temp store (no limit), two small caches, and a cache of one record.
PmaSizes ==
    { [mn |-> 0, mx |-> 0], [mn |-> 1, mx |-> 3], [mn |-> 2, mx |-> 3],
      [mn |-> 1, mx |-> 1] }

(***************************************************************************)
(* Varints (big-endian base 128, high bit = continuation), up to 2 bytes.  *)
(***************************************************************************)
PutVarint(v) == IF v < 128 THEN <<v>> ELSE <<128 + ((v \div 128) % 128), v % 128>>

VarintLen(v) == Len(PutVarint(v))

GetVarint(buf) ==
    IF At(buf, 1) < 128 THEN [v |-> At(buf, 1), n |-> 1]
    ELSE [v |-> (At(buf, 1) - 128) * 128 + (At(buf, 2) % 128), n |-> 2]

(***************************************************************************)
(* The host: temp files and fallible calls.  env.failAt = k > 0 makes the  *)
(* k-th fallible host call from now fail; 0 means no fault is pending.     *)
(***************************************************************************)
Fails(e) == e.failAt = 1

Tick(e) == [e EXCEPT !.failAt = IF @ > 0 THEN @ - 1 ELSE 0]

\* history: a call on file f; it is noted on the file when f was closed before
Use(e, f) == IF e.files[f].open THEN e ELSE [e EXCEPT !.files[f].late = TRUE]

sqlite3OsRead(e, f, n, off) ==
    LET F == e.files[f].data
        e1 == Use(Tick(e), f)
    IN IF Fails(e) THEN [rc |-> SQLITE_IOERR, data |-> <<>>, env |-> e1]
       ELSE IF off + n > Len(F)
            THEN [rc |-> SQLITE_IOERR_SHORT_READ,
                  data |-> [i \in 1..n |-> At(F, off + i)], env |-> e1]
       ELSE [rc |-> SQLITE_OK, data |-> SubSeq(F, off + 1, off + n), env |-> e1]

sqlite3OsWrite(e, f, bytes, off) ==
    LET F == e.files[f].data
        n == Len(bytes)
        G == [i \in 1..Max(Len(F), off + n) |->
                 IF i > off /\ i <= off + n THEN bytes[i - off] ELSE At(F, i)]
    IN IF Fails(e) THEN [rc |-> SQLITE_IOERR, env |-> Use(Tick(e), f)]
       ELSE [rc |-> SQLITE_OK, env |-> [Use(Tick(e), f) EXCEPT !.files[f].data = G]]

vdbeSorterOpenTempFile(e) ==
    IF Fails(e) THEN [rc |-> SQLITE_IOERR, file |-> NoFile, env |-> Tick(e)]
    ELSE [rc |-> SQLITE_OK, file |-> Len(e.files) + 1,
          env |-> [Tick(e) EXCEPT !.files =
                       Append(@, [data |-> <<>>, open |-> TRUE, closes |-> 0,
                                   late |-> FALSE])]]

sqlite3OsCloseFree(e, f) ==
    [Use(e, f) EXCEPT !.files[f].open = FALSE, !.files[f].closes = @ + 1]

(***************************************************************************)
(* Key comparison.                                                         *)
(***************************************************************************)
\* the value a field is compared by: the bytes 16..31 stand for other
\* spellings of the values 0..15, as under a collation that folds case
FieldValue(b) == IF b >= 16 /\ b < 32 THEN b - 16 ELSE b

RECURSIVE LexCompare(_, _, _)
LexCompare(a, b, i) ==
    IF i > Len(a) /\ i > Len(b) THEN 0
    ELSE IF i > Len(a) THEN -1
    ELSE IF i > Len(b) THEN 1
    ELSE IF FieldValue(a[i]) < FieldValue(b[i]) THEN -1
    ELSE IF FieldValue(a[i]) > FieldValue(b[i]) THEN 1
    ELSE LexCompare(a, b, i + 1)

sqlite3VdbeRecordUnpack(pKey) == [aMem |-> pKey, nField |-> Len(pKey), prefix |-> FALSE]

RecordCompare(pKey1, r2) ==
    LET k2 == SubSeq(r2.aMem, 1, Min(r2.nField, Len(r2.aMem)))
        k1 == IF r2.prefix THEN SubSeq(pKey1, 1, Min(Len(k2), Len(pKey1))) ELSE pKey1
    IN LexCompare(k1, k2, 1)

sorterCompare(bOmitRowid, pKey1, pKey2, pUnpacked) ==
    LET r2 == IF pKey2 # Nil THEN sqlite3VdbeRecordUnpack(pKey2[1]) ELSE pUnpacked
        r2n == [r2 EXCEPT !.nField = KeyInfoNField]
    IN IF bOmitRowid
       THEN IF \E i \in 1..r2n.nField : At(r2n.aMem, i) = 0
            THEN [res |-> -1, r2 |-> r2n]
            ELSE [res |-> RecordCompare(pKey1, [r2n EXCEPT !.prefix = TRUE]),
                  r2 |-> [r2n EXCEPT !.prefix = TRUE]]
       ELSE [res |-> RecordCompare(pKey1, r2), r2 |-> r2]

(***************************************************************************)
(* PMA iterators.                                                          *)
(***************************************************************************)
\* the element of a one-element set: Only({ body : x \in {call} }) performs
\* the call once and runs body on its result
Only(S) == CHOOSE x \in S : TRUE

IterZero == [iReadOff |-> 0, iEof |-> 0, File |-> NoFile, Data |-> Nil, Key |-> Nil]

IterClear(pIter) == IterZero

IterNext(pIter, e) ==
    LET d == pIter.iEof - pIter.iReadOff
        nRead == IF d > ITER_NREAD THEN ITER_NREAD ELSE d
    IN IF nRead <= 0
       THEN [it |-> IterClear(pIter), rc |-> SQLITE_OK, env |-> e]
       ELSE Only({
         LET old == pIter.Data
             buf1 == [i \in 1..Max(Len(old), Len(r1.data)) |->
                         IF i <= Len(r1.data) THEN r1.data[i] ELSE old[i]]
         IN IF r1.rc # SQLITE_OK
            THEN [it |-> [pIter EXCEPT !.Data = buf1, !.Key = <<>>],
                  rc |-> r1.rc, env |-> r1.env]
            ELSE
            LET vr == GetVarint(buf1)
                nRec == vr.v
                iOff == vr.n
                need == iOff + nRec
            IN IF need <= nRead
               THEN [it |-> [pIter EXCEPT !.Data = buf1,
                                          !.Key = SubSeq(buf1, iOff + 1, need),
                                          !.iReadOff = @ + nRec],
                     rc |-> SQLITE_OK, env |-> r1.env]
               ELSE IF need > ITER_ALLOC
               THEN [it |-> [pIter EXCEPT !.Data = buf1], rc |-> GO_PANIC, env |-> r1.env]
               ELSE Only({
                 LET buf2 == [i \in 1..Max(Len(buf1), need) |->
                                 IF i > nRead /\ i <= nRead + Len(r2.data)
                                 THEN r2.data[i - nRead] ELSE At(buf1, i)]
                 IN [it |-> [pIter EXCEPT !.Data = buf2,
                                          !.Key = SubSeq(buf2, iOff + 1, need),
                                          !.iReadOff = @ + nRec],
                     rc |-> r2.rc, env |-> r2.env]
                 : r2 \in {sqlite3OsRead(r1.env, pIter.File, need - nRead,
                                         pIter.iReadOff + nRead)} })
         : r1 \in {sqlite3OsRead(e, pIter.File, nRead, pIter.iReadOff)} })

SorterWriteVarint(e, f, iVal, offset) ==
    Only({ [o |-> offset + VarintLen(iVal), rc |-> w.rc, env |-> w.env]
           : w \in {sqlite3OsWrite(e, f, PutVarint(iVal), offset)} })

ReadVarint(e, f, offset) ==
    Only({ LET vr == GetVarint(r.data)
           IN IF r.rc = SQLITE_OK
              THEN [v |-> vr.v, o |-> offset + vr.n, rc |-> r.rc, env |-> r.env]
              ELSE [v |-> 0, o |-> offset, rc |-> r.rc, env |-> r.env]
           : r \in {sqlite3OsRead(e, f, 9, offset)} })

InitializeIterator(s, e, i, iStart, nByteIn) ==
    Only({
      LET it0 == [iReadOff |-> rv.o, iEof |-> rv.o + rv.v, File |-> s.pTemp1,
                  Data |-> <<>>, Key |-> s.aIter[i].Key]
      IN Only({ [s |-> [s EXCEPT !.aIter[i] = nx.it], nByte |-> rv.v + nByteIn,
                 rc |-> nx.rc, env |-> nx.env]
                : nx \in {IF rv.rc = SQLITE_OK THEN IterNext(it0, rv.env)
                          ELSE [it |-> it0, rc |-> rv.rc, env |-> rv.env]} })
      : rv \in {ReadVarint(e, s.pTemp1, iStart)} })

(***************************************************************************)
(* In-memory run: list merge and the 64-slot bottom-up merge sort.         *)
(***************************************************************************)
RECURSIVE MergeLoop(_, _, _, _, _)
MergeLoop(p1, p2, pVal2, r2, out) ==
    IF p1 = <<>> \/ p2 = <<>>
    THEN [out |-> out \o (IF p1 # <<>> THEN p1 ELSE p2), r2 |-> r2]
    ELSE Only({
           IF c.res <= 0
           THEN MergeLoop(Tail(p1), p2, Nil, c.r2, Append(out, Head(p1)))
           ELSE IF Tail(p2) = <<>>
           THEN [out |-> Append(out, Head(p2)) \o p1, r2 |-> c.r2]
           ELSE MergeLoop(p1, Tail(p2), <<Head(Tail(p2))>>, c.r2, Append(out, Head(p2)))
           : c \in {sorterCompare(FALSE, Head(p1), pVal2, r2)} })

\* variant of vdbeSorterMerge with the two lists taken the other way round
vdbeSorterMergeSwapped(p1, p2, r2) ==
    MergeLoop(p2, p1, IF p1 # <<>> THEN <<Head(p1)>> ELSE Nil, r2, <<>>)

vdbeSorterMerge(p1, p2, r2) ==
    MergeLoop(p1, p2, IF p2 # <<>> THEN <<Head(p2)>> ELSE Nil, r2, <<>>)

RECURSIVE SlotInsert(_, _, _, _)
SlotInsert(p, aSlot, i, r2) ==
    IF aSlot[i] # <<>>
    THEN Only({ SlotInsert(m.out, [aSlot EXCEPT ![i] = <<>>], i + 1, m.r2)
                : m \in {vdbeSorterMerge(p, aSlot[i], r2)} })
    ELSE [aSlot |-> [aSlot EXCEPT ![i] = p], r2 |-> r2]

RECURSIVE SortFill(_, _, _)
SortFill(list, aSlot, r2) ==
    IF list = <<>> THEN [aSlot |-> aSlot, r2 |-> r2]
    ELSE Only({ SortFill(Tail(list), f.aSlot, f.r2)
                : f \in {SlotInsert(<<Head(list)>>, aSlot, 0, r2)} })

\* for(i=0; i<64; i++){ vdbeSorterMerge(pCsr, p, aSlot[i], &p); }
\* The left-to-right fold over slots lo..hi, split in halves to keep the
\* evaluation depth logarithmic.
RECURSIVE SortSweep(_, _, _, _, _)
SortSweep(p, aSlot, lo, hi, r2) ==
    IF lo = hi
    THEN Only({ [out |-> m.out, r2 |-> m.r2] : m \in {vdbeSorterMerge(p, aSlot[lo], r2)} })
    ELSE Only({ SortSweep(l.out, aSlot, ((lo + hi) \div 2) + 1, hi, l.r2)
                : l \in {SortSweep(p, aSlot, lo, (lo + hi) \div 2, r2)} })

\* variant of vdbeSorterSort that leaves the list in the order it has
vdbeSorterSortNone(s, e) ==
    [s |-> s, rc |-> IF Fails(e) THEN SQLITE_NOMEM ELSE SQLITE_OK, env |-> Tick(e)]

vdbeSorterSort(s, e) ==
    IF Fails(e) THEN [s |-> s, rc |-> SQLITE_NOMEM, env |-> Tick(e)]
    ELSE Only({
           Only({ [s |-> [s EXCEPT !.pRecord = w.out, !.pUnpacked = w.r2],
                   rc |-> SQLITE_OK, env |-> Tick(e)]
                  : w \in {SortSweep(<<>>, f.aSlot, 0, N_SLOTS - 1, f.r2)} })
           : f \in {SortFill(s.pRecord, [i \in 0..(N_SLOTS - 1) |-> <<>>], s.pUnpacked)} })

(***************************************************************************)
(* Flushing the in-memory run to a PMA.                                    *)
(***************************************************************************)
RECURSIVE WriteRecords(_, _, _, _)
WriteRecords(list, f, iOff, e) ==
    IF list = <<>> THEN [rest |-> <<>>, iOff |-> iOff, rc |-> SQLITE_OK, env |-> e]
    ELSE Only({
           IF w1.rc # SQLITE_OK
           THEN [rest |-> Tail(list), iOff |-> w1.o, rc |-> w1.rc, env |-> w1.env]
           ELSE Only({
                  LET o2 == w1.o + Len(Head(list))
                  IN IF w2.rc # SQLITE_OK
                     THEN [rest |-> Tail(list), iOff |-> o2, rc |-> w2.rc, env |-> w2.env]
                     ELSE WriteRecords(Tail(list), f, o2, w2.env)
                  : w2 \in {sqlite3OsWrite(w1.env, f, Head(list), w1.o)} })
           : w1 \in {SorterWriteVarint(e, f, Len(Head(list)), iOff)} })

eightZeros == <<0, 0, 0, 0, 0, 0, 0, 0>>

\* the steps of vdbeSorterListToPMA after the sort and the opening of the file
ListToPMAWrite(s1, e1) ==
    Only({
      Only({
        Only({ [s |-> [s1 EXCEPT !.nPMA = @ + 1, !.iWriteOff = wr.iOff,
                                 !.pRecord = wr.rest],
                rc |-> pad.rc, env |-> pad.env]
               : pad \in {IF wr.rc = SQLITE_OK
                          THEN sqlite3OsWrite(wr.env, s1.pTemp1, eightZeros, wr.iOff)
                          ELSE [rc |-> wr.rc, env |-> wr.env]} })
        : wr \in {IF hd.rc = SQLITE_OK
                  THEN WriteRecords(s1.pRecord, s1.pTemp1, hd.o, hd.env)
                  ELSE [rest |-> s1.pRecord, iOff |-> hd.o, rc |-> hd.rc,
                        env |-> hd.env]} })
      : hd \in {SorterWriteVarint(e1, s1.pTemp1, s1.nInMemory, s1.iWriteOff)} })

vdbeSorterListToPMA(s, e) ==
    IF s.nInMemory = 0 THEN [s |-> s, rc |-> SQLITE_OK, env |-> e]
    ELSE Only({
      Only({
        IF opn.rc # SQLITE_OK
        THEN [s |-> [srt.s EXCEPT !.pTemp1 = opn.file], rc |-> opn.rc, env |-> opn.env]
        ELSE Only({ ListToPMAWrite(s1, opn.env)
                    : s1 \in {[srt.s EXCEPT !.pTemp1 = opn.file]} })
        : opn \in {IF srt.rc = SQLITE_OK /\ srt.s.pTemp1 = NoFile
                   THEN vdbeSorterOpenTempFile(srt.env)
                   ELSE [rc |-> srt.rc, file |-> srt.s.pTemp1, env |-> srt.env]} })
      : srt \in {vdbeSorterSort(s, e)} })

\* the test that decides whether the list is written out now
FlushAlways(s, heapNearlyFull) == TRUE
FlushDueAnySize(s, heapNearlyFull) ==
    s.nInMemory > s.mxPmaSize \/ (s.nInMemory > s.mnPmaSize /\ heapNearlyFull)
FlushDue(s, heapNearlyFull) ==
    /\ s.mxPmaSize > 0
    /\ (s.nInMemory > s.mxPmaSize \/ (s.nInMemory > s.mnPmaSize /\ heapNearlyFull))

\* variant of ListFlushed that keeps the byte count of the list written out
ListFlushedKeepCount(s) == s

\* line 492: the byte count starts again after the list was written out
ListFlushed(s) == [s EXCEPT !.nInMemory = 0]

sqlite3VdbeSorterWrite(s, e, pVal, heapNearlyFull) ==
    LET s1 == [s EXCEPT !.nInMemory = @ + VarintLen(Len(pVal)) + Len(pVal)]
        oom == Fails(e)
        e1 == Tick(e)
        s2 == IF oom THEN s1 ELSE [s1 EXCEPT !.pRecord = <<pVal>> \o @]
        rc == IF oom THEN SQLITE_NOMEM ELSE SQLITE_OK
    IN IF rc = SQLITE_OK /\ FlushDue(s2, heapNearlyFull)
       THEN Only({ [s |-> ListFlushed(fl.s), rc |-> fl.rc, env |-> fl.env]
                   : fl \in {vdbeSorterListToPMA(s2, e1)} })
       ELSE [s |-> s2, rc |-> rc, env |-> e1]

(***************************************************************************)
(* The tournament tree over the PMA iterators.                             *)
(***************************************************************************)
\* SorterDoCompare with the tie of two live keys going to the second iterator
SorterDoCompareTieHigh(s, iOut) ==
    LET half == s.nTree \div 2
        i1 == IF iOut >= half THEN (iOut - half) * 2 ELSE s.aTree[iOut * 2]
        i2 == IF iOut >= half THEN (iOut - half) * 2 + 1 ELSE s.aTree[iOut * 2 + 1]
        p1 == s.aIter[i1]
        p2 == s.aIter[i2]
    IN IF p1.File = NoFile THEN [s EXCEPT !.aTree[iOut] = i2]
       ELSE IF p2.File = NoFile THEN [s EXCEPT !.aTree[iOut] = i1]
       ELSE Only({ [s EXCEPT !.aTree[iOut] = (IF c.res < 0 THEN i1 ELSE i2),
                             !.pUnpacked = c.r2]
                   : c \in {sorterCompare(FALSE, p1.Key, <<p2.Key>>, s.pUnpacked)} })

SorterDoCompare(s, iOut) ==
    LET half == s.nTree \div 2
        i1 == IF iOut >= half THEN (iOut - half) * 2 ELSE s.aTree[iOut * 2]
        i2 == IF iOut >= half THEN (iOut - half) * 2 + 1 ELSE s.aTree[iOut * 2 + 1]
        p1 == s.aIter[i1]
        p2 == s.aIter[i2]
    IN IF p1.File = NoFile THEN [s EXCEPT !.aTree[iOut] = i2]
       ELSE IF p2.File = NoFile THEN [s EXCEPT !.aTree[iOut] = i1]
       ELSE Only({ [s EXCEPT !.aTree[iOut] = (IF c.res <= 0 THEN i1 ELSE i2),
                             !.pUnpacked = c.r2]
                   : c \in {sorterCompare(FALSE, p1.Key, <<p2.Key>>, s.pUnpacked)} })

\* for i := nTree - 1; i > 0; i-- { SorterDoCompare(i) }
RECURSIVE InitTree(_, _)
InitTree(s, i) ==
    IF i <= 0 THEN s
    ELSE Only({ InitTree(s1, i - 1) : s1 \in {SorterDoCompare(s, i)} })

\* variant of UpdateTree that recomputes the first node only
UpdateTreeOnce(s, i) == IF i <= 0 THEN s ELSE SorterDoCompare(s, i)

\* for i := (nTree + iPrev) / 2; i > 0; i = i / 2 { SorterDoCompare(i) }
RECURSIVE UpdateTree(_, _)
UpdateTree(s, i) ==
    IF i <= 0 THEN s
    ELSE Only({ UpdateTree(s1, i \div 2) : s1 \in {SorterDoCompare(s, i)} })

RECURSIVE InitIterators(_, _, _, _)
InitIterators(s, e, i, nByte) ==
    IF i >= SORTER_MAX_MERGE_COUNT
    THEN [s |-> s, nByte |-> nByte, rc |-> SQLITE_OK, env |-> e]
    ELSE IF i >= s.nTree
    THEN [s |-> s, nByte |-> nByte, rc |-> GO_PANIC, env |-> e]
    ELSE Only({
           Only({ IF r.rc # SQLITE_OK \/ s1.iReadOff >= s1.iWriteOff
                  THEN [s |-> s1, nByte |-> r.nByte, rc |-> r.rc, env |-> r.env]
                  ELSE InitIterators(s1, r.env, i + 1, r.nByte)
                  : s1 \in {[r.s EXCEPT !.iReadOff = r.s.aIter[i].iEof]} })
           : r \in {InitializeIterator(s, e, i, s.iReadOff, nByte)} })

SorterInitMerge(s, e) ==
    Only({ [s |-> IF r.rc = SQLITE_OK THEN InitTree(r.s, r.s.nTree - 1) ELSE r.s,
            nByte |-> r.nByte, rc |-> r.rc, env |-> r.env]
           : r \in {InitIterators(s, e, 0, 0)} })

SorterNext(s, e) ==
    IF s.aTree # Nil
    THEN LET iPrev == s.aTree[1]
         IN Only({
              Only({ [s |-> s2, eof |-> (s2.aIter[s2.aTree[1]].File = NoFile),
                      rc |-> nx.rc, env |-> nx.env]
                     : s2 \in {IF nx.rc = SQLITE_OK
                               THEN UpdateTree([s EXCEPT !.aIter[iPrev] = nx.it],
                                               (s.nTree + iPrev) \div 2)
                               ELSE [s EXCEPT !.aIter[iPrev] = nx.it]} })
              : nx \in {IterNext(s.aIter[iPrev], e)} })
    ELSE IF s.pRecord = <<>>
    THEN [s |-> s, eof |-> TRUE, rc |-> GO_PANIC, env |-> e]
    ELSE LET s1 == [s EXCEPT !.pRecord = Tail(@)]
         IN [s |-> s1, eof |-> (s1.pRecord = <<>>), rc |-> SQLITE_OK, env |-> e]

Rowkey(s) ==
    IF s.aTree # Nil /\ s.nTree > 0
    THEN s.aIter[s.aTree[1]].Key
    ELSE Head(s.pRecord)

(***************************************************************************)
(* Rewind: in-memory sort, or merge set-up with cascaded passes.           *)
(***************************************************************************)
\* SorterNext left the iterator it advanced where it was (its record length was
\* read as 0): every further turn of the merge loop repeats this one, and with
\* no failing write to come the loop has no exit
MergeStuck(s, nx) ==
    LET iPrev == s.aTree[1]
    IN /\ nx.rc = SQLITE_OK
       /\ nx.env.failAt = 0
       /\ nx.s.aIter[iPrev].File # NoFile
       /\ nx.s.aIter[iPrev].iReadOff = s.aIter[iPrev].iReadOff

\* one turn of the merge loop: write the record of aIter[aTree[1]], SorterNext()
MergeTurn(st, pTemp2) ==
    LET s == st.s
        pIter == s.aIter[s.aTree[1]]
        key == pIter.Key
        nToWrite == Len(key) + VarintLen(Len(key))
    IN Only({
         Only({
           IF w.rc # SQLITE_OK
           THEN [s |-> s, env |-> w.env, iWrite2 |-> o, rc |-> w.rc, more |-> FALSE]
           ELSE Only({ IF nx.rc # SQLITE_OK \/ nx.eof
                       THEN [s |-> nx.s, env |-> nx.env, iWrite2 |-> o, rc |-> nx.rc,
                             more |-> FALSE]
                       ELSE IF MergeStuck(s, nx)
                       THEN [s |-> nx.s, env |-> nx.env, iWrite2 |-> o, rc |-> NO_RETURN,
                             more |-> FALSE]
                       ELSE [s |-> nx.s, env |-> nx.env, iWrite2 |-> o, rc |-> nx.rc,
                             more |-> TRUE]
                       : nx \in {SorterNext(s, w.env)} })
           : w \in {sqlite3OsWrite(st.env, pTemp2,
                                   [i \in 1..nToWrite |-> At(pIter.Data, i)],
                                   st.iWrite2)} })
         : o \in {st.iWrite2 + nToWrite} })

\* up to n turns of the loop, split in halves to keep the evaluation depth
\* logarithmic
RECURSIVE MergeTurns(_, _, _)
MergeTurns(st, pTemp2, n) ==
    IF ~st.more THEN st
    ELSE IF n <= 1 THEN MergeTurn(st, pTemp2)
    ELSE Only({ MergeTurns(h, pTemp2, n - (n \div 2))
                : h \in {MergeTurns(st, pTemp2, n \div 2)} })

\* no run of the loop takes more turns: a turn that does not end the loop moves
\* one of the nTree iterators forward in pTemp1, a read past the end of the
\* file fails, and a pending fault hits one of the next failAt host calls
TurnBound(s, e) == s.nTree * (Len(e.files[s.pTemp1].data) + 2) + e.failAt

\* for bEof := false; rc == SQLITE_OK && !bEof; { write aIter[aTree[1]]; SorterNext() }
MergeToFile(s, e, pTemp2, iWrite2) ==
    Only({ [s |-> r.s, env |-> r.env, iWrite2 |-> r.iWrite2,
            rc |-> IF r.more THEN NO_RETURN ELSE r.rc]
           : r \in {MergeTurns([s |-> s, env |-> e, iWrite2 |-> iWrite2,
                                rc |-> SQLITE_OK, more |-> TRUE],
                               pTemp2, TurnBound(s, e))} })

\* one pass body after SorterInitMerge: open pTemp2, write the header, merge
MergeOnePass(im, pTemp2, iWrite2) ==
    Only({
      Only({
        Only({ [s |-> mg.s, env |-> mg.env, pTemp2 |-> op.file,
                iWrite2 |-> mg.iWrite2, rc |-> mg.rc]
               : mg \in {IF hd.rc = SQLITE_OK
                         THEN MergeToFile(im.s, hd.env, op.file, hd.o)
                         ELSE [s |-> im.s, env |-> hd.env, iWrite2 |-> hd.o,
                               rc |-> hd.rc]} })
        : hd \in {IF op.rc = SQLITE_OK
                  THEN SorterWriteVarint(op.env, op.file, im.nByte, iWrite2)
                  ELSE [o |-> iWrite2, rc |-> op.rc, env |-> op.env]} })
      : op \in {IF pTemp2 = NoFile THEN vdbeSorterOpenTempFile(im.env)
                ELSE [rc |-> SQLITE_OK, file |-> pTemp2, env |-> im.env]} })

\* for iNew := 0; rc == SQLITE_OK && iNew * SORTER_MAX_MERGE_COUNT < nPMA; iNew++
RECURSIVE PassLoop(_, _, _, _, _)
PassLoop(s, e, pTemp2, iWrite2, iNew) ==
    IF ~(iNew * SORTER_MAX_MERGE_COUNT < s.nPMA)
    THEN [s |-> s, env |-> e, pTemp2 |-> pTemp2, iWrite2 |-> iWrite2,
          iNew |-> iNew, rc |-> SQLITE_OK]
    ELSE Only({
      IF im.rc # SQLITE_OK \/ im.s.nPMA <= SORTER_MAX_MERGE_COUNT
      THEN [s |-> im.s, env |-> im.env, pTemp2 |-> pTemp2, iWrite2 |-> iWrite2,
            iNew |-> iNew, rc |-> im.rc]
      ELSE Only({ IF mg.rc # SQLITE_OK
                  THEN [s |-> mg.s, env |-> mg.env, pTemp2 |-> mg.pTemp2,
                        iWrite2 |-> mg.iWrite2, iNew |-> iNew + 1, rc |-> mg.rc]
                  ELSE PassLoop(mg.s, mg.env, mg.pTemp2, mg.iWrite2, iNew + 1)
                  : mg \in {MergeOnePass(im, pTemp2, iWrite2)} })
      : im \in {SorterInitMerge(s, e)} })

\* do { passes over pTemp1; swap the files } while rc == SQLITE_OK
RECURSIVE MergePasses(_, _, _, _)
MergePasses(s, e, pTemp2, iWrite2) ==
    Only({
      LET s1 == [pl.s EXCEPT !.nPMA = pl.iNew, !.pTemp1 = pl.pTemp2,
                             !.iWriteOff = pl.iWrite2, !.iReadOff = 0]
      IN IF pl.s.nPMA <= SORTER_MAX_MERGE_COUNT
         THEN [s |-> pl.s, env |-> pl.env, pTemp2 |-> pl.pTemp2, rc |-> pl.rc]
         ELSE IF pl.rc = SQLITE_OK
         THEN Only({ MergePasses(s2, pl.env, pl.s.pTemp1, 0) : s2 \in {s1} })
         ELSE [s |-> s1, env |-> pl.env, pTemp2 |-> pl.s.pTemp1, rc |-> pl.rc]
      : pl \in {PassLoop(s, e, pTemp2, iWrite2, 0)} })

RECURSIVE TreeSize(_, _)

\* variant of TreeSize that doubles once more
TreeSizeTwice(N, nIter) == IF N < nIter THEN TreeSize(N + N, nIter) ELSE N + N

\* for N := 2; N < nIter; N += N {}
TreeSize(N, nIter) == IF N < nIter THEN TreeSize(N + N, nIter) ELSE N

\* a Rewind that closes its second file only when the passes succeeded
CloseSecondFileIfOk(ps) ==
    IF ps.pTemp2 # NoFile /\ ps.rc = SQLITE_OK
    THEN sqlite3OsCloseFree(ps.env, ps.pTemp2) ELSE ps.env

\* if pTemp2 != nil { sqlite3OsCloseFree(pTemp2) }, whatever rc is
CloseSecondFile(ps) ==
    IF ps.pTemp2 # NoFile THEN sqlite3OsCloseFree(ps.env, ps.pTemp2) ELSE ps.env

sqlite3VdbeSorterRewind(s, e) ==
    IF s.nPMA = 0
    THEN Only({ [s |-> srt.s, env |-> srt.env, rc |-> srt.rc, eofSet |-> TRUE,
                 eof |-> (s.pRecord = <<>>)]
                : srt \in {vdbeSorterSort(s, e)} })
    ELSE Only({
      LET nIter == Min(fl.s.nPMA, SORTER_MAX_MERGE_COUNT)
          N == TreeSize(2, nIter)
          e1 == Tick(fl.env)
      IN IF fl.rc # SQLITE_OK
         THEN [s |-> fl.s, env |-> fl.env, rc |-> fl.rc, eofSet |-> FALSE, eof |-> FALSE]
         ELSE IF Fails(fl.env)
         THEN [s |-> [fl.s EXCEPT !.aIter = Nil], env |-> e1, rc |-> SQLITE_NOMEM,
               eofSet |-> FALSE, eof |-> FALSE]
         ELSE Only({
           Only({
             LET e2 == CloseSecondFile(ps)
             IN [s |-> ps.s, env |-> e2, rc |-> ps.rc, eofSet |-> TRUE,
                 eof |-> (ps.s.aIter[ps.s.aTree[1]].File = NoFile)]
             : ps \in {MergePasses(s1, e1, NoFile, 0)} })
           : s1 \in {[fl.s EXCEPT !.aIter = [i \in 0..(N - 1) |-> IterZero],
                                  !.aTree = [i \in 0..(N - 1) |-> 0],
                                  !.nTree = N]} })
      : fl \in {vdbeSorterListToPMA(s, e)} })

\* SorterRecord.Clear: unlinks every record, then writes through the loop
\* variable, which is nil once the loop has ended.
SorterRecordClear(pRecord) ==
    [pRecord |-> IF pRecord = <<>> THEN <<>> ELSE <<Head(pRecord)>>, panic |-> TRUE]

SorterClose(s, e) ==
    IF s = NilSorter THEN [s |-> s, env |-> e, rc |-> SQLITE_OK]
    ELSE LET e1 == IF s.pTemp1 # NoFile THEN sqlite3OsCloseFree(e, s.pTemp1) ELSE e
             cl == SorterRecordClear(s.pRecord)
             s1 == [s EXCEPT !.aIter = Nil, !.pRecord = cl.pRecord]
         IN IF cl.panic THEN [s |-> s1, env |-> e1, rc |-> GO_PANIC]
            ELSE [s |-> NilSorter, env |-> e1, rc |-> SQLITE_OK]

sqlite3VdbeSorterInit(sz) ==
    [iWriteOff |-> 0, iReadOff |-> 0, nInMemory |-> 0, nTree |-> 0, nPMA |-> 0,
     mnPmaSize |-> sz.mn, mxPmaSize |-> sz.mx, aIter |-> Nil, aTree |-> Nil,
     pTemp1 |-> NoFile, pRecord |-> <<>>,
     pUnpacked |-> [aMem |-> <<>>, nField |-> 0, prefix |-> FALSE]]

(***************************************************************************)
(* The sorter as a state machine: one action per public operation.         *)
(***************************************************************************)
\* a call of the sorter's interface, as the caller made it
SorterCall(op, pVal, heapNearlyFull, k) ==
    [op |-> op, pVal |-> pVal, heapNearlyFull |-> heapNearlyFull, failAt |-> k]

NoCall == SorterCall("none", <<>>, FALSE, 0)

Arm(e, k) == [e EXCEPT !.failAt = k]
Disarm(e) == [e EXCEPT !.failAt = 0]

SorterInit ==
    /\ \E sz \in PmaSizes : pSorter = sqlite3VdbeSorterInit(sz)
    /\ env = [files |-> <<>>, failAt |-> 0]
    /\ written = <<>>
    /\ output = <<>>
    /\ srtRc = SQLITE_OK
    /\ bEof = FALSE
    /\ phase = "writing"
    /\ call = NoCall

DoSorterWrite ==
    /\ phase = "writing"
    /\ Len(written) < MaxRecords
    /\ \E pVal \in Records, heapNearlyFull \in BOOLEAN, k \in 0..MaxFail :
         \E r \in {sqlite3VdbeSorterWrite(pSorter, Arm(env, k), pVal, heapNearlyFull)} :
            /\ pSorter' = r.s
            /\ env' = Disarm(r.env)
            /\ srtRc' = r.rc
            /\ written' = IF k = 1 THEN written ELSE Append(written, pVal)
            /\ call' = SorterCall("Write", pVal, heapNearlyFull, k)
            /\ phase' = IF r.rc = SQLITE_OK THEN "writing" ELSE "error"
    /\ UNCHANGED <<output, bEof>>

\* Rewind with a fault injected at one of the first maxFail host calls, or none
RewindCall(maxFail) ==
    /\ phase = "writing"
    /\ \E k \in 0..maxFail :
         \E r \in {sqlite3VdbeSorterRewind(pSorter, Arm(env, k))} :
            /\ pSorter' = r.s
            /\ env' = Disarm(r.env)
            /\ srtRc' = r.rc
            /\ bEof' = IF r.eofSet THEN r.eof ELSE bEof
            /\ call' = SorterCall("Rewind", <<>>, FALSE, k)
            /\ phase' = IF r.rc = NO_RETURN THEN "hung"
                        ELSE IF r.rc # SQLITE_OK THEN "error"
                        ELSE IF r.eof THEN "eof" ELSE "reading"
    /\ UNCHANGED <<written, output>>

DoSorterRewind == RewindCall(MaxFail)

DoSorterNext ==
    /\ phase = "reading"
    /\ Len(output) < MaxOutput
    /\ \E k \in 0..MaxFail :
         \E r \in {SorterNext(pSorter, Arm(env, k))} :
            /\ output' = Append(output, Rowkey(pSorter))
            /\ pSorter' = r.s
            /\ env' = Disarm(r.env)
            /\ srtRc' = r.rc
            /\ bEof' = r.eof
            /\ call' = SorterCall("Next", <<>>, FALSE, k)
            /\ phase' = IF r.rc # SQLITE_OK THEN "error"
                        ELSE IF r.eof THEN "eof" ELSE "reading"
    /\ UNCHANGED written

DoSorterClose ==
    /\ phase \in {"writing", "reading", "eof", "error"}
    /\ LET r == SorterClose(pSorter, env)
       IN /\ pSorter' = r.s
          /\ env' = r.env
          /\ srtRc' = r.rc
    /\ phase' = "closed"
    /\ call' = SorterCall("Close", <<>>, FALSE, 0)
    /\ UNCHANGED <<written, output, bEof>>

(***************************************************************************)
(* A sorter holding more PMAs than one merge takes: the sorter after n     *)
(* SorterWrite calls on a cache of one record, each of which flushed its   *)
(* record to a PMA of its own.                                             *)
(***************************************************************************)
MaxPMAs == 39          \* most PMAs in pTemp1 when Rewind is called
MaxCascadeFail == 200  \* a fault hits one of the first MaxCascadeFail host calls of Rewind

\* the last byte of the records written: 0, 1, or 1 and 2 in turn
CascadeFills == {"zero", "one", "mixed"}

CascadeRecord(i, fill) ==
    <<CASE fill = "zero" -> 0 [] fill = "one" -> 1 [] OTHER -> 1 + (i % 2)>>

CascadeCounts ==
    {SORTER_MAX_MERGE_COUNT, SORTER_MAX_MERGE_COUNT + 1,
     2 * SORTER_MAX_MERGE_COUNT + 1, MaxPMAs,
     SORTER_MAX_MERGE_COUNT * SORTER_MAX_MERGE_COUNT + 1}

\* SorterWrite called for the records lo..hi in turn, every call succeeding;
\* the calls are split in halves to keep the evaluation depth logarithmic
RECURSIVE FillSorter(_, _, _, _, _)
FillSorter(s, e, recs, lo, hi) ==
    IF lo > hi THEN [s |-> s, env |-> e]
    ELSE IF lo = hi
    THEN Only({ [s |-> w.s, env |-> w.env]
                : w \in {sqlite3VdbeSorterWrite(s, e, recs[lo], FALSE)} })
    ELSE Only({ FillSorter(l.s, l.env, recs, mid + 1, hi)
                : mid \in {(lo + hi) \div 2},
                  l \in {FillSorter(s, e, recs, lo, (lo + hi) \div 2)} })

CascadeInit ==
    /\ \E n \in CascadeCounts, fill \in CascadeFills :
         \E recs \in {[i \in 1..n |-> CascadeRecord(i, fill)]} :
            \E f \in {FillSorter(sqlite3VdbeSorterInit([mn |-> 1, mx |-> 1]),
                                 [files |-> <<>>, failAt |-> 0], recs, 1, n)} :
               /\ pSorter = f.s
               /\ env = f.env
               /\ written = recs
    /\ output = <<>>
    /\ srtRc = SQLITE_OK
    /\ bEof = FALSE
    /\ phase = "writing"
    /\ call = NoCall

DoCascadeRewind == RewindCall(MaxCascadeFail)

(***************************************************************************)
(* A sorter holding records around the sizes the iterator reads by: the    *)
(* first read of ITER_NREAD bytes and the buffer of ITER_ALLOC bytes.      *)
(***************************************************************************)
MaxLong == 2           \* most records written before Rewind is called

LongLens ==
    {1, ITER_NREAD - 1, ITER_NREAD, ITER_ALLOC - 2, ITER_ALLOC - 1, ITER_ALLOC,
     2 * ITER_ALLOC}

\* a record of n bytes: b, then ones
LongRecord(n, b) == [i \in 1..n |-> IF i = 1 THEN b ELSE 1]

\* the k-th record written starts with byte k
LongInit ==
    /\ \E n \in 1..MaxLong :
         \E lens \in [1..n -> LongLens] :
         \E recs \in {[k \in 1..n |-> LongRecord(lens[k], k)]} :
            \E f \in {FillSorter(sqlite3VdbeSorterInit([mn |-> 1, mx |-> 1]),
                                 [files |-> <<>>, failAt |-> 0], recs, 1, n)} :
               /\ pSorter = f.s
               /\ env = f.env
               /\ written = recs
    /\ output = <<>>
    /\ srtRc = SQLITE_OK
    /\ bEof = FALSE
    /\ phase = "writing"
    /\ call = NoCall

(***************************************************************************)
(* A sorter that keeps everything in memory (mxPmaSize = 0) and holds      *)
(* records some of which compare equal without being the same bytes.       *)
(***************************************************************************)
MaxStable == 4         \* most records written before Rewind is called

\* one-field records: two values, each in two spellings
StableRecords == {<<1>>, <<17>>, <<2>>, <<18>>}

StableInit ==
    /\ \E n \in 0..MaxStable :
         \E recs \in [1..n -> StableRecords] :
            \E f \in {FillSorter(sqlite3VdbeSorterInit([mn |-> 0, mx |-> 0]),
                                 [files |-> <<>>, failAt |-> 0], recs, 1, n)} :
               /\ pSorter = f.s
               /\ env = f.env
               /\ written = recs
    /\ output = <<>>
    /\ srtRc = SQLITE_OK
    /\ bEof = FALSE
    /\ phase = "writing"
    /\ call = NoCall

SorterIdle ==
    /\ pSorter = NilSorter
    /\ env = [files |-> <<>>, failAt |-> 0]
    /\ written = <<>>
    /\ output = <<>>
    /\ srtRc = SQLITE_OK
    /\ bEof = FALSE
    /\ phase = "none"
    /\ call = NoCall

(***************************************************************************)
(* CellInfo.ParsePtr (src/btree/cellinfo.go).                              *)
(***************************************************************************)
MaxUsable == 10      \* largest usableSize of the page constants tried
MaxPayload == 24     \* largest declared payload
MaxKey == 1          \* largest integer key

Uint16(x) == x % 65536

\* big-endian 4-byte page number
Put4byte(v) == <<(v \div 16777216) % 256, (v \div 65536) % 256, (v \div 256) % 256, v % 256>>

\* the varint that starts at 0-based offset n of the cell
VarintAt(cell, n) == GetVarint(SubSeq(cell, n + 1, Len(cell)))

\* ParsePtr keeping maxLocal bytes local when the surplus does not fit
ParsePtrKeepMaxLocal(page, cell) ==
    LET n0 == page.childPtrSize
        pv == IF page.intKey /\ ~page.hasData THEN [v |-> 0, n |-> 0] ELSE VarintAt(cell, n0)
        payload == pv.v
        kv == IF page.intKey THEN VarintAt(cell, n0 + pv.n) ELSE [v |-> payload, n |-> 0]
        n == n0 + pv.n + kv.n
        base == [Key |-> kv.v, Data |-> IF page.intKey THEN payload ELSE 0,
                 Payload |-> payload, Header |-> n]
        surplus == page.minLocal + ((payload - page.minLocal) % (page.usableSize - 4))
        local == IF surplus <= page.maxLocal THEN Uint16(surplus) ELSE Uint16(page.maxLocal)
    IN IF payload <= page.maxLocal
       THEN base @@ [Size |-> Max(Uint16(n + payload), 4), Local |-> Uint16(payload),
                     Overflow |-> 0]
       ELSE base @@ [Local |-> local, Overflow |-> Uint16(local + n),
                     Size |-> Uint16(Uint16(local + n) + 4)]

\* ParsePtr with the local/overflow decision taken on payload < maxLocal
ParsePtrSpillAtMaxLocal(page, cell) ==
    LET n0 == page.childPtrSize
        pv == IF page.intKey /\ ~page.hasData THEN [v |-> 0, n |-> 0] ELSE VarintAt(cell, n0)
        payload == pv.v
        kv == IF page.intKey THEN VarintAt(cell, n0 + pv.n) ELSE [v |-> payload, n |-> 0]
        n == n0 + pv.n + kv.n
        base == [Key |-> kv.v, Data |-> IF page.intKey THEN payload ELSE 0,
                 Payload |-> payload, Header |-> n]
        surplus == page.minLocal + ((payload - page.minLocal) % (page.usableSize - 4))
        local == IF surplus <= page.maxLocal THEN Uint16(surplus) ELSE Uint16(page.minLocal)
    IN IF payload < page.maxLocal
       THEN base @@ [Size |-> Max(Uint16(n + payload), 4), Local |-> Uint16(payload),
                     Overflow |-> 0]
       ELSE base @@ [Local |-> local, Overflow |-> Uint16(local + n),
                     Size |-> Uint16(Uint16(local + n) + 4)]

\* surplus = minLocal + (payload - minLocal) % (page.pBt.usableSize - 4)
PageSurplus(page, payload) ==
    page.minLocal + ((payload - page.minLocal) % (page.usableSize - 4))

\* a spill that keeps the surplus local whatever its size
SpillLocalSurplus(page, payload) == Uint16(PageSurplus(page, payload))

\* a spill that keeps minLocal bytes local whatever the surplus
SpillLocalMin(page, payload) == Uint16(page.minLocal)

\* the bytes of a spilled payload that stay on the page
SpillLocal(page, payload) ==
    IF PageSurplus(page, payload) <= page.maxLocal
    THEN Uint16(PageSurplus(page, payload)) ELSE Uint16(page.minLocal)

ParsePtr(page, cell) ==
    LET n0 == page.childPtrSize
        pv == IF page.intKey /\ ~page.hasData THEN [v |-> 0, n |-> 0] ELSE VarintAt(cell, n0)
        payload == pv.v
        kv == IF page.intKey THEN VarintAt(cell, n0 + pv.n) ELSE [v |-> payload, n |-> 0]
        n == n0 + pv.n + kv.n
        base == [Key |-> kv.v, Data |-> IF page.intKey THEN payload ELSE 0,
                 Payload |-> payload, Header |-> n]
        local == SpillLocal(page, payload)
    IN IF payload <= page.maxLocal
       THEN base @@ [Size |-> Max(Uint16(n + payload), 4), Local |-> Uint16(payload),
                     Overflow |-> 0]
       ELSE base @@ [Local |-> local, Overflow |-> Uint16(local + n),
                     Size |-> Uint16(Uint16(local + n) + 4)]

\* page flag combinations: table leaf, table interior, index leaf, index interior
PageKinds ==
    { [leaf |-> TRUE, intKey |-> TRUE, hasData |-> TRUE],
      [leaf |-> FALSE, intKey |-> TRUE, hasData |-> FALSE],
      [leaf |-> TRUE, intKey |-> FALSE, hasData |-> FALSE],
      [leaf |-> FALSE, intKey |-> FALSE, hasData |-> FALSE] }

\* page constants: 0 <= minLocal <= maxLocal <= usableSize - 4 - 1
CellPages ==
    { k @@ [childPtrSize |-> IF k.leaf THEN 0 ELSE 4,
            usableSize |-> u, minLocal |-> mn, maxLocal |-> mx] :
        k \in PageKinds,
        u \in {x \in 7..MaxUsable : TRUE},
        mn \in 0..(MaxUsable - 5),
        mx \in 0..(MaxUsable - 5) }

EmitCell(page, payload, key) ==
    (IF page.leaf THEN <<>> ELSE Put4byte(2))
    \o (IF page.intKey /\ ~page.hasData THEN <<>> ELSE PutVarint(payload))
    \o (IF page.intKey THEN PutVarint(key) ELSE <<>>)

NoCellInfo == [Key |-> 0, Data |-> 0, Payload |-> 0, Header |-> 0, Local |-> 0,
               Overflow |-> 0, Size |-> 0, parsed |-> FALSE]

CellInit ==
    /\ cellPage \in {pg \in CellPages :
                        pg.minLocal <= pg.maxLocal /\ pg.maxLocal <= pg.usableSize - 5}
    /\ \E payload \in 0..MaxPayload, key \in 1..MaxKey :
         LET declared == IF cellPage.intKey /\ ~cellPage.hasData THEN 0 ELSE payload
         IN cellIn = [bytes |-> EmitCell(cellPage, payload, key),
                      payload |-> declared, key |-> key]
    /\ info = NoCellInfo

CellIdle ==
    /\ cellPage = [leaf |-> TRUE]
    /\ cellIn = [bytes |-> <<>>]
    /\ info = NoCellInfo

DoParsePtr ==
    /\ ~info.parsed
    /\ cellIn.bytes # <<>>
    /\ info' = ParsePtr(cellPage, cellIn.bytes) @@ [parsed |-> TRUE]
    /\ UNCHANGED <<cellPage, cellIn>>

(***************************************************************************)
(* B-tree pages (MemoryPage) as the cursor code reads and changes them.    *)
(* A page is a record: free (not allocated), leaf, intKey, hasData, cells  *)
(* (the cell pointer array, each cell [key, size, child]), right (the      *)
(* right-most child) and aOvfl (the staged overflow cells with the index   *)
(* they are meant for).  nCell, nOverflow and nFree are derived.           *)
(***************************************************************************)
MaxPages == 12            \* size of the page pool
NumOthers == 1            \* cursors open besides the one operated on
UsableSize == 12          \* pBt.usableSize, scaled down

BTCURSOR_MAX_DEPTH == 20
CHILD_PTR_SIZE == 4
INTKEY_CELL_SIZE == 5

SQLITE_FULL == "SQLITE_FULL"

CURSOR_INVALID == "CURSOR_INVALID"
CURSOR_VALID == "CURSOR_VALID"
CURSOR_REQUIRESEEK == "CURSOR_REQUIRESEEK"
CURSOR_FAULT == "CURSOR_FAULT"

PageIds == 1..MaxPages

PageZero == [free |-> TRUE, leaf |-> TRUE, intKey |-> FALSE, hasData |-> FALSE,
             cells |-> <<>>, right |-> 0, aOvfl |-> <<>>]

nCell(pg) == Len(pg.cells)

nOverflow(pg) == Len(pg.aOvfl)

RECURSIVE UsedBytes(_)
UsedBytes(cells) == IF cells = <<>> THEN 0 ELSE Head(cells).size + UsedBytes(Tail(cells))

nFree(pg) == UsableSize - UsedBytes(pg.cells)

\* 0-based removal from and insertion into a cell array
RemoveAt(q, i) == SubSeq(q, 1, i) \o SubSeq(q, i + 2, Len(q))

InsertAt(q, i, x) == SubSeq(q, 1, i) \o <<x>> \o SubSeq(q, i + 1, Len(q))

FindCell(pg, i) == pg.cells[i + 1]

cellSize(pCell) == pCell.size

\* child page below cell j; j = nCell is the right-most child
ChildAt(pg, j) == IF j < nCell(pg) THEN pg.cells[j + 1].child ELSE pg.right

dropCell(pg, idx) == [pg EXCEPT !.cells = RemoveAt(@, idx)]

\* a cell that does not fit, or that arrives while cells are staged, is staged
InsertCell(pg, i, cell) ==
    IF nOverflow(pg) > 0 \/ cell.size > nFree(pg)
    THEN [pg EXCEPT !.aOvfl = Append(@, [idx |-> i, cell |-> cell])]
    ELSE [pg EXCEPT !.cells = InsertAt(@, i, cell)]

\* the cell array with the staged cells at the places they are meant for
RECURSIVE Stage(_, _)
Stage(cells, ov) ==
    IF ov = <<>> THEN cells
    ELSE Stage(InsertAt(cells, Min(Head(ov).idx, Len(cells)), Head(ov).cell), Tail(ov))

Logical(pg) == Stage(pg.cells, pg.aOvfl)

\* lowest unallocated page number, 0 when the pool is exhausted
NewPage(pgs) ==
    IF \E p \in PageIds : pgs[p].free
    THEN CHOOSE p \in PageIds : pgs[p].free /\ \A q \in PageIds : pgs[q].free => p <= q
    ELSE 0

GetPageAndInitialize(pgs, pgno, okGet) ==
    IF ~okGet THEN SQLITE_IOERR
    ELSE IF pgno \notin PageIds \/ pgs[pgno].free THEN SQLITE_CORRUPT
    ELSE SQLITE_OK

(***************************************************************************)
(* The cursor: iPage, Pages[], aiIdx[], eState and the cached cell parse.  *)
(***************************************************************************)
Depths == 0..(BTCURSOR_MAX_DEPTH - 1)

CursorAtRoot(root) ==
    [RootPage |-> root, iPage |-> 0, Pages |-> [d \in Depths |-> IF d = 0 THEN root ELSE 0],
     aiIdx |-> [d \in Depths |-> 0], eState |-> CURSOR_VALID, nSize |-> 0, validNKey |-> 0]

\* a depth test that lets the cursor use the last slot of Pages[] as a parent
DepthLimitOffByOne(pCur) == pCur.iPage >= BTCURSOR_MAX_DEPTH

\* if pCur.iPage >= (BTCURSOR_MAX_DEPTH - 1)
DepthLimitReached(pCur) == pCur.iPage >= (BTCURSOR_MAX_DEPTH - 1)

\* variant of MoveToChild that steps down before it asks for the page
MoveToChildEager(pCur, pgs, newPageNumber, okGet) ==
    LET i == pCur.iPage
    IN IF DepthLimitReached(pCur)
       THEN [cur |-> pCur, rc |-> SQLITE_CORRUPT]
       ELSE LET c1 == [pCur EXCEPT !.Pages[i + 1] = newPageNumber, !.aiIdx[i + 1] = 0,
                                   !.iPage = i + 1, !.nSize = 0, !.validNKey = 0]
            IN IF GetPageAndInitialize(pgs, newPageNumber, okGet) # SQLITE_OK
               THEN [cur |-> c1, rc |-> GetPageAndInitialize(pgs, newPageNumber, okGet)]
               ELSE IF nCell(pgs[newPageNumber]) < 1
                       \/ pgs[newPageNumber].intKey # pgs[pCur.Pages[i]].intKey
               THEN [cur |-> c1, rc |-> SQLITE_CORRUPT]
               ELSE [cur |-> c1, rc |-> SQLITE_OK]

MoveToChild(pCur, pgs, newPageNumber, okGet) ==
    LET i == pCur.iPage
    IN IF DepthLimitReached(pCur)
       THEN [cur |-> pCur, rc |-> SQLITE_CORRUPT]
       ELSE IF GetPageAndInitialize(pgs, newPageNumber, okGet) # SQLITE_OK
       THEN [cur |-> pCur, rc |-> GetPageAndInitialize(pgs, newPageNumber, okGet)]
       ELSE LET c1 == [pCur EXCEPT !.Pages[i + 1] = newPageNumber, !.aiIdx[i + 1] = 0,
                                   !.iPage = i + 1, !.nSize = 0, !.validNKey = 0]
            IN IF nCell(pgs[newPageNumber]) < 1
                  \/ pgs[newPageNumber].intKey # pgs[pCur.Pages[i]].intKey
               THEN [cur |-> c1, rc |-> SQLITE_CORRUPT]
               ELSE [cur |-> c1, rc |-> SQLITE_OK]

\* descend along right-most children to a leaf and stand on its last cell
RECURSIVE moveToRightmost(_, _)
moveToRightmost(pCur, pgs) ==
    LET pPage == pgs[pCur.Pages[pCur.iPage]]
    IN IF pPage.leaf
       THEN [cur |-> [pCur EXCEPT !.aiIdx[pCur.iPage] = nCell(pPage) - 1], rc |-> SQLITE_OK]
       ELSE Only({ IF m.rc # SQLITE_OK THEN m ELSE moveToRightmost(m.cur, pgs)
                   : m \in {MoveToChild([pCur EXCEPT !.aiIdx[pCur.iPage] = nCell(pPage)],
                                        pgs, pPage.right, TRUE)} })

\* step to the in-order predecessor of an entry on an internal page
sqlite3BtreePrevious(pCur, pgs, okGet) ==
    LET pPage == pgs[pCur.Pages[pCur.iPage]]
        idx == pCur.aiIdx[pCur.iPage]
    IN Only({ IF m.rc # SQLITE_OK THEN m ELSE moveToRightmost(m.cur, pgs)
              : m \in {MoveToChild(pCur, pgs, FindCell(pPage, idx).child, okGet)} })

\* every other valid cursor on the same root remembers its position
saveAllCursors(others, iRoot, okSave) ==
    IF ~okSave THEN [others |-> others, rc |-> SQLITE_NOMEM]
    ELSE [others |-> [o \in DOMAIN others |->
                         IF others[o].RootPage = iRoot /\ others[o].eState = CURSOR_VALID
                         THEN [others[o] EXCEPT !.eState = CURSOR_REQUIRESEEK]
                         ELSE others[o]],
          rc |-> SQLITE_OK]

MoveToRoot(pCur, pgs) ==
    LET c0 == [pCur EXCEPT !.iPage = 0, !.aiIdx[0] = 0, !.nSize = 0, !.validNKey = 0,
                           !.Pages[0] = pCur.RootPage]
        pRoot == pgs[pCur.RootPage]
    IN IF nCell(pRoot) = 0 /\ ~pRoot.leaf
       THEN MoveToChild([c0 EXCEPT !.eState = CURSOR_VALID], pgs, pRoot.right, TRUE).cur
       ELSE [c0 EXCEPT !.eState = IF nCell(pRoot) > 0 THEN CURSOR_VALID ELSE CURSOR_INVALID]

(***************************************************************************)
(* The three balancing strategies.  Their code is not part of the sources  *)
(* modelled here; they follow the description of the balancer: deeper      *)
(* copies the root into a new child, quick puts the single staged cell on  *)
(* a new right sibling, non-root spreads the cells of up to three siblings *)
(* and their dividers over a possibly different number of pages.           *)
(***************************************************************************)
balance_deeper(pgs, pRoot, ok) ==
    LET pChild == NewPage(pgs)
    IN IF ~ok THEN [pages |-> pgs, child |-> 0, rc |-> SQLITE_NOMEM]
       ELSE IF pChild = 0 THEN [pages |-> pgs, child |-> 0, rc |-> SQLITE_FULL]
       ELSE [pages |-> [pgs EXCEPT ![pChild] = pgs[pRoot],
                                   ![pRoot] = [pgs[pRoot] EXCEPT !.leaf = FALSE,
                                                                 !.hasData = FALSE,
                                                                 !.cells = <<>>,
                                                                 !.aOvfl = <<>>,
                                                                 !.right = pChild]],
             child |-> pChild, rc |-> SQLITE_OK]

balance_quick(pgs, pParent, pPage, ok) ==
    LET page == pgs[pPage]
        pNew == NewPage(pgs)
        divider == [key |-> FindCell(page, nCell(page) - 1).key,
                    size |-> INTKEY_CELL_SIZE, child |-> pPage]
    IN IF nCell(page) = 0 THEN [pages |-> pgs, rc |-> SQLITE_CORRUPT]
       ELSE IF ~ok THEN [pages |-> pgs, rc |-> SQLITE_NOMEM]
       ELSE IF pNew = 0 THEN [pages |-> pgs, rc |-> SQLITE_FULL]
       ELSE [pages |-> [pgs EXCEPT
                 ![pNew] = [page EXCEPT !.cells = <<page.aOvfl[1].cell>>,
                                        !.aOvfl = <<>>, !.right = 0],
                 ![pParent] = [InsertCell(pgs[pParent], nCell(pgs[pParent]), divider)
                                  EXCEPT !.right = pNew]],
             rc |-> SQLITE_OK]

\* the siblings balanced together: the child iIdx and its neighbours
FirstSibling(parent, iIdx) ==
    IF nCell(parent) < 2 THEN 0
    ELSE IF iIdx = 0 THEN 0
    ELSE IF iIdx >= nCell(parent) THEN nCell(parent) - 2
    ELSE iIdx - 1

SiblingCount(parent) == Min(3, nCell(parent) + 1)

\* the cells of the siblings in key order, the dividers of the parent between
\* them (a divider of a table leaf is only a copy of a key and is left out)
RECURSIVE Gather(_, _, _, _, _)
Gather(pgs, parent, nxDiv, j, nOld) ==
    IF j >= nOld THEN <<>>
    ELSE LET sib == pgs[ChildAt(parent, nxDiv + j)]
             div == FindCell(parent, nxDiv + j)
             down == [key |-> div.key,
                      size |-> IF sib.leaf THEN div.size - CHILD_PTR_SIZE ELSE div.size,
                      child |-> sib.right]
         IN Logical(sib)
            \o (IF j < nOld - 1 /\ ~sib.hasData THEN <<down>> ELSE <<>>)
            \o Gather(pgs, parent, nxDiv, j + 1, nOld)

\* strictly increasing n-tuples over lo..m: the positions where pages end
RECURSIVE Cuts(_, _, _)
Cuts(lo, m, n) ==
    IF n = 0 THEN {<<>>}
    ELSE UNION {{<<b>> \o c : c \in Cuts(b + 1, m, n - 1)} : b \in lo..m}

GroupFirst(c, j) == IF j = 1 THEN 1 ELSE c[j - 1] + 1

GroupLast(all, c, j, moveUp) ==
    IF j > Len(c) THEN Len(all) ELSE IF moveUp THEN c[j] - 1 ELSE c[j]

Group(all, c, j, moveUp) == SubSeq(all, GroupFirst(c, j), GroupLast(all, c, j, moveUp))

ValidCut(all, c, moveUp) ==
    \A j \in 1..(Len(c) + 1) :
        /\ UsedBytes(Group(all, c, j, moveUp)) <= UsableSize
        /\ (Len(c) > 0 => GroupLast(all, c, j, moveUp) >= GroupFirst(c, j))

Spread(all, c, moveUp) ==
    LET used == {UsedBytes(Group(all, c, j, moveUp)) : j \in 1..(Len(c) + 1)}
    IN (CHOOSE x \in used : \A y \in used : y <= x)
       - (CHOOSE x \in used : \A y \in used : x <= y)

\* the most even of the valid cuts into the smallest possible number of pages
BestCut(all, maxCuts, moveUp) ==
    LET valid == [n \in 0..maxCuts |-> {c \in Cuts(1, Len(all), n) : ValidCut(all, c, moveUp)}]
        N == {n \in 0..maxCuts : valid[n] # {}}
    IN IF N = {} THEN <<0>>
       ELSE LET n == CHOOSE x \in N : \A y \in N : x <= y
                spread == [c \in valid[n] |-> Spread(all, c, moveUp)]
            IN CHOOSE c \in valid[n] : \A d \in valid[n] : spread[c] <= spread[d]

FreeSeq(pgs) ==
    LET F == {p \in PageIds : pgs[p].free}
    IN [i \in 1..Cardinality(F) |-> CHOOSE p \in F : Cardinality({q \in F : q < p}) = i - 1]

RECURSIVE InsertDividers(_, _, _)
InsertDividers(pg, divs, at) ==
    IF divs = <<>> THEN pg
    ELSE InsertDividers(InsertCell(pg, at, Head(divs)), Tail(divs), at + 1)

\* the page with its staged cells at the places they are meant for
LogicalPage(pg) == [pg EXCEPT !.cells = Logical(pg), !.aOvfl = <<>>]

\* write the pages of cut c, and the parent with the new dividers in the place
\* of the old ones; what does not fit on the parent is staged
Rebuild(pgs, pParent, nxDiv, nOld, all, c) ==
    LET parent == LogicalPage(pgs[pParent])
        old == [j \in 1..nOld |-> ChildAt(parent, nxDiv + j - 1)]
        first == pgs[old[1]]
        moveUp == ~first.hasData
        k == Len(c) + 1
        fresh == FreeSeq(pgs)
        ids == [j \in 1..k |-> IF j <= nOld THEN old[j] ELSE fresh[j - nOld]]
        page(j) == [free |-> FALSE, leaf |-> first.leaf, intKey |-> first.intKey,
                    hasData |-> first.hasData, cells |-> Group(all, c, j, moveUp),
                    right |-> IF first.leaf THEN 0
                              ELSE IF j < k THEN all[c[j]].child
                              ELSE pgs[old[nOld]].right,
                    aOvfl |-> <<>>]
        divs == [j \in 1..(k - 1) |->
                    [key |-> all[c[j]].key,
                     size |-> IF first.hasData THEN INTKEY_CELL_SIZE
                              ELSE IF first.leaf THEN all[c[j]].size + CHILD_PTR_SIZE
                              ELSE all[c[j]].size,
                     child |-> ids[j]]]
        kept == SubSeq(parent.cells, 1, nxDiv)
                \o SubSeq(parent.cells, nxDiv + nOld, nCell(parent))
        relinked == IF nxDiv < Len(kept) THEN [kept EXCEPT ![nxDiv + 1].child = ids[k]]
                    ELSE kept
        p0 == [parent EXCEPT !.cells = <<>>,
                             !.right = IF nxDiv < Len(kept) THEN @ ELSE ids[k]]
        newCells == SubSeq(relinked, 1, nxDiv) \o divs
                    \o SubSeq(relinked, nxDiv + 1, Len(relinked))
    IN IF k - nOld > Len(fresh) THEN [pages |-> pgs, rc |-> SQLITE_FULL]
       ELSE [pages |-> [p \in PageIds |->
                           IF p = pParent THEN InsertDividers(p0, newCells, 0)
                           ELSE IF \E j \in 1..k : ids[j] = p
                           THEN page(CHOOSE j \in 1..k : ids[j] = p)
                           ELSE IF \E j \in 1..nOld : old[j] = p THEN PageZero
                           ELSE pgs[p]],
             rc |-> SQLITE_OK]

BalanceNonroot(pgs, pParent, iIdx, isRoot, ok) ==
    LET parent == LogicalPage(pgs[pParent])
        nxDiv == FirstSibling(parent, iIdx)
        nOld == SiblingCount(parent)
        sibs == {ChildAt(parent, nxDiv + j) : j \in 0..(nOld - 1)}
    IN IF ~ok THEN [pages |-> pgs, rc |-> SQLITE_NOMEM]
       ELSE IF \E p \in sibs : p \notin PageIds \/ pgs[p].free \/ p = pParent
       THEN [pages |-> pgs, rc |-> SQLITE_CORRUPT]
       ELSE Only({
              Only({ IF c = <<0>> THEN [pages |-> pgs, rc |-> SQLITE_CORRUPT]
                     ELSE Rebuild(pgs, pParent, nxDiv, nOld, all, c)
                     : c \in {BestCut(all, nOld + 1,
                                      ~pgs[ChildAt(parent, nxDiv)].hasData)} })
              : all \in {Gather(pgs, parent, nxDiv, 0, nOld)} })

(***************************************************************************)
(* Cursor.Balance: one pass through the body of its for loop.  rc is the   *)
(* function's return variable as the pass finds it; the result says        *)
(* whether the loop is left (the test that ends the body) and which calls  *)
(* the pass has made.                                                      *)
(***************************************************************************)
\* the test for balance_quick applied to pages of every kind
BalanceQuickAnyKind(pPage, pParent, parentPgno, iIdx) ==
    /\ nOverflow(pPage) = 1
    /\ pPage.aOvfl[1].idx = nCell(pPage)
    /\ parentPgno # 1
    /\ nCell(pParent) = iIdx

BalanceQuickApplies(pPage, pParent, parentPgno, iIdx) ==
    /\ pPage.hasData
    /\ nOverflow(pPage) = 1
    /\ pPage.aOvfl[1].idx = nCell(pPage)
    /\ parentPgno # 1
    /\ nCell(pParent) = iIdx

BalanceLoopExit(rc) == rc = SQLITE_OK

BalanceIter(pgs, pCur, rcIn, okWrite, okStrategy) ==
    LET nMin == (UsableSize * 2) \div 3
        iPage == pCur.iPage
        pPage == pgs[pCur.Pages[iPage]]
        idle == [pages |-> pgs, cur |-> pCur, rc |-> rcIn, deeper |-> 0, quick |-> 0,
                 nonroot |-> 0, write |-> 0]
    IN IF iPage = 0
       THEN IF nOverflow(pPage) > 0
            THEN Only({ [idle EXCEPT
                           !.pages = d.pages, !.rc = d.rc, !.deeper = 1,
                           !.cur = IF d.rc = SQLITE_OK
                                   THEN [pCur EXCEPT !.Pages[1] = d.child, !.iPage = 1,
                                                     !.aiIdx[0] = 0, !.aiIdx[1] = 0]
                                   ELSE pCur]
                        : d \in {balance_deeper(pgs, pCur.Pages[0], okStrategy)} })
            ELSE idle
       ELSE IF nOverflow(pPage) = 0 /\ nFree(pPage) <= nMin
       THEN idle
       ELSE
       LET pParent == pCur.Pages[iPage - 1]
           iIdx == pCur.aiIdx[iPage - 1]
           quick == BalanceQuickApplies(pPage, pgs[pParent], pParent, iIdx)
       IN Only({ [pages |-> [b.pages EXCEPT ![pCur.Pages[iPage]].aOvfl = <<>>],
                  cur |-> [pCur EXCEPT !.iPage = iPage - 1],
                  rc |-> b.rc,
                  deeper |-> 0,
                  quick |-> IF okWrite /\ quick THEN 1 ELSE 0,
                  nonroot |-> IF okWrite /\ ~quick THEN 1 ELSE 0,
                  write |-> 1]
                 : b \in {IF ~okWrite THEN [pages |-> pgs, rc |-> SQLITE_IOERR]
                          ELSE IF quick
                          THEN balance_quick(pgs, pParent, pCur.Pages[iPage], okStrategy)
                          ELSE BalanceNonroot(pgs, pParent, iIdx, iPage = 1, okStrategy)} })

(***************************************************************************)
(* Cursor.Delete up to its first call of Balance.  fault names the call    *)
(* that fails, "none" when all succeed.  log records, for every change     *)
(* made, what the cursors' states were when it was made.                   *)
(***************************************************************************)
DeleteFaults == {"none", "previous", "save", "write", "clear", "writeLeaf", "insert"}

LogEvent(st, ev) ==
    [st EXCEPT !.log = Append(@, [ev |-> ev, others |-> st.others, self |-> st.cur.eState])]

\* variant of DeleteGuard that tests the index only
DeleteGuardIndexOnly(pCur, pgs) ==
    pCur.aiIdx[pCur.iPage] >= nCell(pgs[pCur.Pages[pCur.iPage]])

\* line 193: the index is past the last cell, or the cursor is not valid
DeleteGuard(pCur, pgs) ==
    \/ pCur.aiIdx[pCur.iPage] >= nCell(pgs[pCur.Pages[pCur.iPage]])
    \/ pCur.eState # CURSOR_VALID

\* variant of DeleteDrop that saves the other cursors after the cell is dropped
DeleteDropSavedLate(st, pPage, iCellIdx, fault) ==
    IF fault = "write" THEN [st EXCEPT !.rc = SQLITE_IOERR]
    ELSE IF fault = "clear" THEN [LogEvent(st, "write") EXCEPT !.rc = SQLITE_CORRUPT]
    ELSE LET s1 == LogEvent(LogEvent(LogEvent(st, "write"), "clear"), "drop")
             s2 == [s1 EXCEPT !.pages[pPage] = dropCell(@, iCellIdx)]
             sv == saveAllCursors(st.others, st.cur.RootPage, fault # "save")
         IN [LogEvent(s2, "save") EXCEPT !.others = sv.others, !.rc = sv.rc]

\* lines 211-226: saveAllCursors, then pager write, clearCell and dropCell on
\* the target page
DeleteDrop(st, pPage, iCellIdx, fault) ==
    LET sv == saveAllCursors(st.others, st.cur.RootPage, fault # "save")
        s1 == LogEvent([st EXCEPT !.others = sv.others], "save")
    IN IF sv.rc # SQLITE_OK THEN [st EXCEPT !.rc = sv.rc]
       ELSE IF fault = "write" THEN [s1 EXCEPT !.rc = SQLITE_IOERR]
       ELSE IF fault = "clear" THEN [LogEvent(s1, "write") EXCEPT !.rc = SQLITE_CORRUPT]
       ELSE LET s2 == LogEvent(LogEvent(LogEvent(s1, "write"), "clear"), "drop")
            IN [s2 EXCEPT !.pages[pPage] = dropCell(@, iCellIdx)]

\* variant of DeleteReplace that drops the leaf's cell before the insert
DeleteReplaceDropFirst(st, pPage, iCellIdx, iCellDepth, fault) ==
    LET pLeaf == st.cur.Pages[st.cur.iPage]
        n == st.cur.Pages[iCellDepth + 1]
        pCell == FindCell(st.pages[pLeaf], nCell(st.pages[pLeaf]) - 1)
        cell == [key |-> pCell.key, size |-> cellSize(pCell) + CHILD_PTR_SIZE, child |-> n]
    IN IF fault = "writeLeaf" THEN [st EXCEPT !.rc = SQLITE_IOERR]
       ELSE LET s0 == LogEvent(LogEvent(st, "writeLeaf"), "dropLeaf")
                s1 == [s0 EXCEPT !.pages[pLeaf] = dropCell(@, nCell(st.pages[pLeaf]) - 1)]
            IN IF fault = "insert" THEN [s1 EXCEPT !.rc = SQLITE_NOMEM]
               ELSE [LogEvent(s1, "insert") EXCEPT !.pages[pPage] = InsertCell(@, iCellIdx, cell)]

\* the largest cell of the leaf goes, with the child's page number in front,
\* where the deleted cell was
DeleteReplace(st, pPage, iCellIdx, iCellDepth, fault) ==
    LET pLeaf == st.cur.Pages[st.cur.iPage]
        n == st.cur.Pages[iCellDepth + 1]
        pCell == FindCell(st.pages[pLeaf], nCell(st.pages[pLeaf]) - 1)
        cell == [key |-> pCell.key, size |-> cellSize(pCell) + CHILD_PTR_SIZE, child |-> n]
    IN IF fault = "writeLeaf" THEN [st EXCEPT !.rc = SQLITE_IOERR]
       ELSE IF fault = "insert" THEN [LogEvent(st, "writeLeaf") EXCEPT !.rc = SQLITE_NOMEM]
       ELSE LET s1 == LogEvent(LogEvent(LogEvent(st, "writeLeaf"), "insert"), "dropLeaf")
            IN [s1 EXCEPT !.pages[pPage] = InsertCell(@, iCellIdx, cell),
                          !.pages[pLeaf] = dropCell(@, nCell(st.pages[pLeaf]) - 1)]

\* lines 193-251; balance says whether Balance is called next
DeleteBegin(pgs, pCur, others, fault) ==
    LET st0 == [pages |-> pgs, cur |-> pCur, others |-> others, log |-> <<>>,
                rc |-> SQLITE_OK, balance |-> FALSE, iCellDepth |-> 0]
    IN IF DeleteGuard(pCur, pgs) THEN [st0 EXCEPT !.rc = SQLITE_ERROR]
       ELSE
       LET iCellDepth == pCur.iPage
           iCellIdx == pCur.aiIdx[iCellDepth]
           pPage == pCur.Pages[iCellDepth]
           isLeaf == pgs[pPage].leaf
       IN Only({
            IF pv.rc # SQLITE_OK THEN [st0 EXCEPT !.cur = pv.cur, !.rc = pv.rc]
            ELSE Only({
              IF dr.rc # SQLITE_OK \/ isLeaf
              THEN [dr EXCEPT !.balance = (dr.rc = SQLITE_OK)]
              ELSE Only({ [rp EXCEPT !.balance = (rp.rc = SQLITE_OK)]
                          : rp \in {DeleteReplace(dr, pPage, iCellIdx, iCellDepth, fault)} })
              : dr \in {DeleteDrop([st0 EXCEPT !.cur = pv.cur, !.iCellDepth = iCellDepth],
                                   pPage, iCellIdx, fault)} })
            : pv \in {IF isLeaf THEN [cur |-> pCur, rc |-> SQLITE_OK]
                      ELSE sqlite3BtreePrevious(pCur, pgs, fault # "previous")} })

(***************************************************************************)
(* In-order keys of the tree, read from the cells that are on the pages.   *)
(***************************************************************************)
RECURSIVE InOrder(_, _, _)
RECURSIVE InOrderFrom(_, _, _, _)
InOrder(pgs, p, fuel) ==
    IF fuel = 0 \/ p \notin PageIds THEN <<>>
    ELSE IF pgs[p].free THEN <<>>
    ELSE IF pgs[p].leaf THEN [i \in 1..nCell(pgs[p]) |-> pgs[p].cells[i].key]
    ELSE InOrderFrom(pgs, p, 0, fuel)

InOrderFrom(pgs, p, j, fuel) ==
    IF j >= nCell(pgs[p]) THEN InOrder(pgs, pgs[p].right, fuel - 1)
    ELSE InOrder(pgs, pgs[p].cells[j + 1].child, fuel - 1)
         \o (IF pgs[p].intKey THEN <<>> ELSE <<pgs[p].cells[j + 1].key>>)
         \o InOrderFrom(pgs, p, j + 1, fuel)

TreeKeys(pgs, root) == InOrder(pgs, root, MaxPages)

(***************************************************************************)
(* Trees and cursors a caller can hold when it calls Delete or Insert.     *)
(***************************************************************************)
TreeKinds == {"index", "table"}

SizePatterns == {"small", "big", "mixed"}

InsertSizes == {2, 6}

MaxFill == 3               \* most keys a leaf of an initial tree starts with

SizeOf(k, pat) ==
    IF pat = "small" THEN 2
    ELSE IF pat = "big" THEN 4
    ELSE IF (k \div 10) % 3 = 2 THEN 4 ELSE 2

Take(q, n) == SubSeq(q, 1, Min(n, Len(q)))

\* the keys of a leaf that starts at key base: one, two or three of them
LeafKeys(base, fill) ==
    IF fill = 1 THEN <<base>>
    ELSE IF fill = 2 THEN <<base, base + 10>>
    ELSE <<base, base + 5, base + 10>>

LeafPage(keys, kind, pat) ==
    [free |-> FALSE, leaf |-> TRUE, intKey |-> (kind = "table"), hasData |-> (kind = "table"),
     cells |-> [i \in 1..Len(keys) |-> [key |-> keys[i], size |-> SizeOf(keys[i], pat),
                                        child |-> 0]],
     right |-> 0, aOvfl |-> <<>>]

\* in a table the largest key of a left subtree is repeated in the divider
LeftLeaf(keys, d, kind, pat) ==
    LeafPage(IF kind = "table" THEN Append(keys, d) ELSE keys, kind, pat)

InteriorPage(divs, right, kind, pat) ==
    [free |-> FALSE, leaf |-> FALSE, intKey |-> (kind = "table"), hasData |-> FALSE,
     cells |-> [i \in 1..Len(divs) |->
                   [key |-> divs[i][1],
                    size |-> IF kind = "table" THEN INTKEY_CELL_SIZE
                             ELSE SizeOf(divs[i][1], pat) + CHILD_PTR_SIZE,
                    child |-> divs[i][2]]],
     right |-> right, aOvfl |-> <<>>]

TreeA(r, kind, pat, n) ==
    [p \in PageIds |->
        IF p = r THEN LeafPage(Take(<<10, 20, 30>>, n), kind, pat) ELSE PageZero]

TreeB(r, kind, pat, fill) ==
    [p \in PageIds |->
        IF p = r THEN InteriorPage(<< <<30, r + 1>> >>, r + 2, kind, pat)
        ELSE IF p = r + 1 THEN LeftLeaf(LeafKeys(10, fill), 30, kind, pat)
        ELSE IF p = r + 2 THEN LeafPage(LeafKeys(40, fill), kind, pat)
        ELSE PageZero]

TreeC(r, kind, pat, fill) ==
    [p \in PageIds |->
        IF p = r THEN InteriorPage(<< <<30, r + 1>>, <<60, r + 2>> >>, r + 3, kind, pat)
        ELSE IF p = r + 1 THEN LeftLeaf(LeafKeys(10, fill), 30, kind, pat)
        ELSE IF p = r + 2 THEN LeftLeaf(LeafKeys(40, fill), 60, kind, pat)
        ELSE IF p = r + 3 THEN LeafPage(LeafKeys(70, fill), kind, pat)
        ELSE PageZero]

TreeD(r, kind, pat, fill) ==
    [p \in PageIds |->
        IF p = r THEN InteriorPage(<< <<90, r + 1>> >>, r + 2, kind, pat)
        ELSE IF p = r + 1
        THEN InteriorPage(<< <<30, r + 3>>, <<60, r + 4>> >>, r + 5, kind, pat)
        ELSE IF p = r + 2 THEN InteriorPage(<< <<130, r + 6>> >>, r + 7, kind, pat)
        ELSE IF p = r + 3 THEN LeftLeaf(LeafKeys(10, fill), 30, kind, pat)
        ELSE IF p = r + 4 THEN LeftLeaf(LeafKeys(40, fill), 60, kind, pat)
        ELSE IF p = r + 5 THEN LeftLeaf(LeafKeys(70, fill), 90, kind, pat)
        ELSE IF p = r + 6 THEN LeftLeaf(LeafKeys(110, fill), 130, kind, pat)
        ELSE IF p = r + 7 THEN LeafPage(LeafKeys(140, fill), kind, pat)
        ELSE PageZero]

\* no page holds more than fits, none has staged cells, and every page but
\* the root is at least a third full
Balanced(pgs, root) ==
    \A p \in PageIds :
        ~pgs[p].free =>
            /\ nOverflow(pgs[p]) = 0
            /\ nFree(pgs[p]) >= 0
            /\ (p # root => nFree(pgs[p]) <= (UsableSize * 2) \div 3)

InitTrees ==
    { t \in
        { [pages |-> TreeA(r, kind, pat, n), root |-> r, kind |-> kind] :
            r \in {1, 2}, kind \in TreeKinds, pat \in SizePatterns, n \in 0..3 }
        \cup
        { [pages |-> TreeB(r, kind, pat, fill), root |-> r, kind |-> kind] :
            r \in {1, 2}, kind \in TreeKinds, pat \in SizePatterns, fill \in 1..MaxFill }
        \cup
        { [pages |-> TreeC(r, kind, pat, fill), root |-> r, kind |-> kind] :
            r \in {1, 2}, kind \in TreeKinds, pat \in SizePatterns, fill \in 1..MaxFill }
        \cup
        { [pages |-> TreeD(r, kind, pat, fill), root |-> r, kind |-> kind] :
            r \in {1, 2}, kind \in TreeKinds, pat \in SizePatterns, fill \in 1..MaxFill }
      : Balanced(t.pages, t.root) }

\* the cursors that stand on a page of the subtree below c's current page
Descend(c, j, child) ==
    [c EXCEPT !.aiIdx[c.iPage] = j, !.Pages[c.iPage + 1] = child, !.iPage = c.iPage + 1]

RECURSIVE Positions(_, _)
Positions(pgs, c) ==
    Only({ IF pg.leaf
           THEN {[c EXCEPT !.aiIdx[c.iPage] = i] : i \in 0..nCell(pg)}
           ELSE (IF pg.intKey THEN {}
                 ELSE {[c EXCEPT !.aiIdx[c.iPage] = i] : i \in 0..nCell(pg)})
                \cup UNION { Positions(pgs, c1) :
                               c1 \in { Descend(c, j, ChildAt(pg, j)) : j \in 0..nCell(pg) } }
           : pg \in {pgs[c.Pages[c.iPage]]} })

CursorStates == {CURSOR_VALID, CURSOR_INVALID, CURSOR_REQUIRESEEK, CURSOR_FAULT}

InitCursors(t) ==
    { [c EXCEPT !.eState = es] : c \in UNION { Positions(t.pages, c0) : c0 \in {CursorAtRoot(t.root)} },
                                 es \in CursorStates }

OtherCursors(root) ==
    [1..NumOthers -> { [RootPage |-> rp, eState |-> es] :
                         rp \in {root, MaxPages + 1},
                         es \in {CURSOR_VALID, CURSOR_INVALID} }]

(***************************************************************************)
(* The b-tree as a state machine.  Balance may loop without end, so every  *)
(* pass through its loop is a step; Delete runs to its call of Balance in  *)
(* one step and resumes when Balance has returned.                         *)
(***************************************************************************)
MaxBalanceFaults == 2     \* injected faults in one call of Balance

(***************************************************************************)
(* Page references.  A cursor holds one reference on every page of its     *)
(* path; Release gives one back.                                           *)
(***************************************************************************)
OnPath(pCur, p) == \E d \in 0..pCur.iPage : pCur.Pages[d] = p

PathPins(pCur) == [p \in PageIds |-> IF OnPath(pCur, p) THEN 1 ELSE 0]

\* the pages between two depths of a path, once each
PinsBetween(pCur, lo, hi) ==
    [p \in PageIds |-> Cardinality({d \in lo..hi : pCur.Pages[d] = p})]

\* sqlite3BtreePrevious in Delete: every MoveToChild that got its page holds it
DeletePins(pins, pCur, moved) ==
    [p \in PageIds |-> pins[p] + PinsBetween(moved, pCur.iPage + 1, moved.iPage)[p]]

\* one pass of Balance: balance_deeper hands back the new child referenced
\* (line 78); the default case releases the page it leaves (line 130)
BalancePins(pins, pCur, it) ==
    [p \in PageIds |->
        pins[p]
        + (IF it.deeper = 1 /\ it.rc = SQLITE_OK /\ it.cur.Pages[1] = p THEN 1 ELSE 0)
        - (IF it.write = 1 /\ pCur.Pages[pCur.iPage] = p THEN 1 ELSE 0)]

\* lines 256-259: iPage is decremented first, then Pages[iPage] is released
DeleteWalkUpPins(pins, pCur, iCellDepth) ==
    [p \in PageIds |-> pins[p] - PinsBetween(pCur, iCellDepth, pCur.iPage - 1)[p]]

\* MoveToRoot releases every page below the root, and descends into the only
\* child of an empty interior root
MoveToRootPins(pins, pCur, moved) ==
    [p \in PageIds |->
        pins[p] - PinsBetween(pCur, 1, pCur.iPage)[p] + PinsBetween(moved, 1, moved.iPage)[p]]

\* what a pass through Balance's loop did: the routine it called, or that the
\* parent could not be made writable, or that nothing was left to do
Chosen(it) ==
    IF it.deeper = 1 THEN "balance_deeper"
    ELSE IF it.quick = 1 THEN "balance_quick"
    ELSE IF it.nonroot = 1 THEN "BalanceNonroot"
    ELSE IF it.write = 1 THEN "write failed"
    ELSE "nothing"

(***************************************************************************)
(* The pSpace scratch buffers of Balance.  frees[i] counts the calls of     *)
(* sqlite3PageFree on the i-th buffer allocated, pFree is the buffer the    *)
(* variable pFree points to (0 for nil), peak the largest number of         *)
(* buffers that were allocated and not yet freed at one moment.             *)
(***************************************************************************)
NoSpace == [frees |-> <<>>, pFree |-> 0, peak |-> 0]

LiveSpace(sp) == Cardinality({i \in 1..Len(sp.frees) : sp.frees[i] = 0})

\* line 115
sqlite3PageMalloc(sp) ==
    Only({ [a EXCEPT !.peak = Max(@, LiveSpace(a))]
           : a \in {[sp EXCEPT !.frees = Append(@, 0)]} })

sqlite3PageFree(sp, p) == [sp EXCEPT !.frees[p] = @ + 1]

\* variant of FreePrevious that leaves the previous buffer alone
FreePreviousNever(sp) == sp

\* lines 117-121: the buffer of the previous call of BalanceNonroot
FreePrevious(sp) ==
    IF sp.pFree # 0 THEN sqlite3PageFree(sp, sp.pFree) ELSE sp

\* lines 115-124, around the call of BalanceNonroot
NonrootSpace(sp) ==
    Only({ [FreePrevious(a) EXCEPT !.pFree = Len(a.frees)]
           : a \in {sqlite3PageMalloc(sp)} })

\* lines 138-140, before Balance returns
ReturnSpace(sp) ==
    IF sp.pFree # 0 THEN sqlite3PageFree(sp, sp.pFree) ELSE sp

\* the buffers after a pass through the loop, and after the loop when the
\* pass was the last one
PassSpace(sp, it) ==
    Only({ IF BalanceLoopExit(it.rc) THEN ReturnSpace(s1) ELSE s1
           : s1 \in {IF it.nonroot = 1 THEN NonrootSpace(sp) ELSE sp} })

NewBalance(caller) ==
    [caller |-> caller, entry |-> 0, deeper |-> 0, quick |-> 0, faults |-> 0,
     firstErr |-> SQLITE_OK, late |-> FALSE, last |-> "none", space |-> NoSpace]

NoOp == [name |-> "none", key |-> 0, iCellDepth |-> 0]

BtInit ==
    /\ \E t \in InitTrees :
         /\ btPages = t.pages
         /\ btCur \in InitCursors(t)
         /\ btOthers \in OtherCursors(t.root)
         /\ btPre = [keys |-> TreeKeys(t.pages, t.root), pages |-> t.pages,
                     cur |-> btCur, others |-> btOthers]
    /\ btPc = "idle"
    /\ btRc = SQLITE_OK
    /\ balInfo = NewBalance("none")
    /\ btOp = NoOp
    /\ btLog = <<>>
    /\ btPins = PathPins(btCur)

BtIdle ==
    /\ btPages = <<>>
    /\ btCur = [eState |-> CURSOR_INVALID]
    /\ btOthers = <<>>
    /\ btPre = [keys |-> <<>>]
    /\ btPc = "none"
    /\ btRc = SQLITE_OK
    /\ balInfo = NewBalance("none")
    /\ btOp = NoOp
    /\ btLog = <<>>
    /\ btPins = <<>>

DoDelete ==
    /\ btPc = "idle"
    /\ \E fault \in DeleteFaults :
       \E r \in {DeleteBegin(btPages, btCur, btOthers, fault)} :
         /\ btPages' = r.pages
         /\ btCur' = r.cur
         /\ btPins' = DeletePins(btPins, btCur, r.cur)
         /\ btOthers' = r.others
         /\ btLog' = r.log
         /\ btRc' = r.rc
         /\ btPc' = IF r.balance THEN "balance" ELSE "done"
         /\ balInfo' = IF r.balance
                       THEN [NewBalance("delete1") EXCEPT !.entry = r.cur.iPage]
                       ELSE balInfo
         /\ btOp' = [name |-> "Delete",
                     key |-> IF btCur.aiIdx[btCur.iPage] < nCell(btPages[btCur.Pages[btCur.iPage]])
                             THEN FindCell(btPages[btCur.Pages[btCur.iPage]],
                                           btCur.aiIdx[btCur.iPage]).key
                             ELSE 0,
                     iCellDepth |-> r.iCellDepth]
    /\ UNCHANGED btPre

\* insert: the new cell goes where the cursor stands, then Balance is called
DoInsert ==
    /\ btPc = "idle"
    /\ btCur.eState = CURSOR_VALID
    /\ LET pPage == btPages[btCur.Pages[btCur.iPage]]
           idx == btCur.aiIdx[btCur.iPage]
           rightmost == \A d \in 0..(btCur.iPage - 1) :
                            btCur.aiIdx[d] = nCell(btPages[btCur.Pages[d]])
           key == IF idx < nCell(pPage) THEN FindCell(pPage, idx).key - 2
                  ELSE IF nCell(pPage) = 0 THEN 5
                  ELSE FindCell(pPage, nCell(pPage) - 1).key + 2
       IN /\ pPage.leaf
          /\ idx < nCell(pPage) \/ ~pPage.intKey \/ rightmost
          /\ \E sz \in InsertSizes :
               btPages' = [btPages EXCEPT ![btCur.Pages[btCur.iPage]] =
                              InsertCell(@, idx, [key |-> key, size |-> sz, child |-> 0])]
          /\ btOp' = [name |-> "Insert", key |-> key, iCellDepth |-> btCur.iPage]
    /\ btPc' = "balance"
    /\ btRc' = SQLITE_OK
    /\ balInfo' = [NewBalance("insert") EXCEPT !.entry = btCur.iPage]
    /\ UNCHANGED <<btCur, btOthers, btLog, btPre, btPins>>

BalanceStep ==
    /\ btPc = "balance"
    /\ \E okWrite \in BOOLEAN, okStrategy \in BOOLEAN :
         /\ (~okWrite \/ ~okStrategy) => balInfo.faults < MaxBalanceFaults
         /\ \E it \in {BalanceIter(btPages, btCur, btRc, okWrite, okStrategy)} :
              /\ btPages' = it.pages
              /\ btCur' = it.cur
              /\ btPins' = BalancePins(btPins, btCur, it)
              /\ btRc' = it.rc
              /\ balInfo' = [balInfo EXCEPT
                     !.deeper = Min(@ + it.deeper, MaxBalanceFaults + 1),
                     !.quick = Min(@ + it.quick, MaxBalanceFaults + 1),
                     !.faults = IF (okWrite /\ okStrategy) \/ it.deeper + it.write = 0
                                THEN @ ELSE @ + 1,
                     !.firstErr = IF @ = SQLITE_OK THEN it.rc ELSE @,
                     !.late = @ \/ (btRc # SQLITE_OK /\ it.deeper + it.write > 0),
                     !.last = Chosen(it),
                     !.space = PassSpace(@, it)]
              /\ btPc' = IF BalanceLoopExit(it.rc) THEN "balanceReturn" ELSE "balance"
    /\ UNCHANGED <<btOthers, btOp, btLog, btPre>>

\* lines 255-265: a second Balance from the depth of the deleted cell, then
\* the cursor goes back to the root
DeleteResume ==
    /\ btPc = "balanceReturn"
    /\ balInfo.caller \in {"delete1", "delete2"}
    /\ IF balInfo.caller = "delete1" /\ btRc = SQLITE_OK /\ btCur.iPage > btOp.iCellDepth
       THEN /\ btCur' = [btCur EXCEPT !.iPage = btOp.iCellDepth]
            /\ btPins' = DeleteWalkUpPins(btPins, btCur, btOp.iCellDepth)
            /\ btPc' = "balance"
            /\ balInfo' = [NewBalance("delete2") EXCEPT !.entry = btOp.iCellDepth]
            /\ btRc' = SQLITE_OK
       ELSE /\ \E moved \in {IF btRc = SQLITE_OK THEN MoveToRoot(btCur, btPages) ELSE btCur} :
                 /\ btCur' = moved
                 /\ btPins' = IF btRc = SQLITE_OK
                               THEN MoveToRootPins(btPins, btCur, moved)
                               ELSE btPins
            /\ btPc' = "done"
            /\ UNCHANGED <<balInfo, btRc>>
    /\ UNCHANGED <<btPages, btOthers, btOp, btLog, btPre>>

InsertResume ==
    /\ btPc = "balanceReturn"
    /\ balInfo.caller = "insert"
    /\ btPc' = "done"
    /\ UNCHANGED <<btPages, btCur, btOthers, btRc, balInfo, btOp, btLog, btPre, btPins>>

(***************************************************************************)
(* The home-grown recursive mutex of src/btree/cursor.go: pthreadLock,     *)
(* pthreadMutexTry and pthreadUnlock as compiled with                      *)
(* SQLITE_HOMEGROWN_RECURSIVE_MUTEX, on one mutex of kind                  *)
(* SQLITE_MUTEX_RECURSIVE.  Every read or write of p.nRef and p.owner and  *)
(* every pthread_mutex_* call is one step of the calling thread; the       *)
(* source assumes those single accesses are atomic and the cache coherent. *)
(***************************************************************************)
NumThreads == 2      \* threads using the mutex
MaxEnter == 2        \* a thread enters the mutex at most MaxEnter times over

SQLITE_BUSY == "SQLITE_BUSY"

Threads == 1..NumThreads

\* pthread_t value 0: no thread
NoThread == 0

\* SQLITE3_MUTEX_INITIALIZER: the pthread mutex unlocked, nRef 0, owner 0
MutexInitializer == [mutex |-> NoThread, nRef |-> 0, owner |-> NoThread]

ThreadIdle == [pc |-> "idle", op |-> "none", rc |-> SQLITE_OK, n0 |-> 0, wrote |-> FALSE]

\* pthread_equal(p.owner, self)
OwnerIsAnyone(p, self) == TRUE
OwnerIs(p, self) == p.owner = self

\* p.nRef++
RefInc(p) == [p EXCEPT !.nRef = p.nRef + 1]

\* p.owner = self (after the pthread mutex was obtained)
SetOwner(p, self) == [p EXCEPT !.owner = self]

\* p.nRef = 1
SetRefOne(p) == [p EXCEPT !.nRef = 1]

\* the else branch of pthreadMutexTry: pthread_mutex_trylock failed
TryBusyCounts(p) == [p EXCEPT !.nRef = p.nRef + 1]
TryBusy(p) == p

\* p.nRef--
RefDec(p) == [p EXCEPT !.nRef = p.nRef - 1]

\* if( p.nRef==0 ) p.owner = 0
ClearOwner(p) == IF p.nRef = 0 THEN [p EXCEPT !.owner = NoThread] ELSE p

\* variant of ReleaseMutex that never unlocks the pthread mutex
ReleaseMutexNever(p) == p

\* if( p.nRef==0 ) pthread_mutex_unlock(&p.mutex)
ReleaseMutex(p) == IF p.nRef = 0 THEN [p EXCEPT !.mutex = NoThread] ELSE p

\* the thread moves to position pc2 of its call with result rc2; p2 is the
\* mutex after the step
Goto(self, pc2, rc2, p2) ==
    /\ mtx' = p2
    /\ thr' = [thr EXCEPT ![self].pc = pc2, ![self].rc = rc2,
                          ![self].wrote = thr[self].wrote \/ p2 # mtx]

Enter(self) == entered' = [entered EXCEPT ![self] = entered[self] + 1]

Leave(self) == entered' = [entered EXCEPT ![self] = entered[self] - 1]

\* a thread calls one of the three routines; by the contract stated above
\* pthreadUnlock it calls pthreadUnlock only on a mutex it has entered
Call(self, op, pc2) ==
    /\ thr[self].pc = "idle"
    /\ thr' = [thr EXCEPT ![self] = [pc |-> pc2, op |-> op, rc |-> SQLITE_OK,
                                     n0 |-> entered[self], wrote |-> FALSE]]
    /\ UNCHANGED <<mtx, entered>>

\* the test p.nRef>0 && pthread_equal(p.owner, self), one read per step
TestRef(self, pcOwner, pcMutex) ==
    /\ Goto(self, IF mtx.nRef > 0 THEN pcOwner ELSE pcMutex, thr[self].rc, mtx)
    /\ UNCHANGED entered

TestOwner(self, pcInc, pcMutex) ==
    /\ Goto(self, IF OwnerIs(mtx, self) THEN pcInc ELSE pcMutex, thr[self].rc, mtx)
    /\ UNCHANGED entered

pthreadLock(self) ==
    \/ /\ entered[self] < MaxEnter
       /\ Call(self, "Lock", "lockRef")
    \/ /\ thr[self].pc = "lockRef"
       /\ TestRef(self, "lockOwner", "lockMutex")
    \/ /\ thr[self].pc = "lockOwner"
       /\ TestOwner(self, "lockInc", "lockMutex")
    \/ /\ thr[self].pc = "lockInc"
       /\ Goto(self, "idle", SQLITE_OK, RefInc(mtx))
       /\ Enter(self)
    \/ /\ thr[self].pc = "lockMutex"
       /\ mtx.mutex = NoThread            \* pthread_mutex_lock blocks until then
       /\ Goto(self, "lockSetOwner", SQLITE_OK, [mtx EXCEPT !.mutex = self])
       /\ Enter(self)
    \/ /\ thr[self].pc = "lockSetOwner"
       /\ Goto(self, "lockSetRef", SQLITE_OK, SetOwner(mtx, self))
       /\ UNCHANGED entered
    \/ /\ thr[self].pc = "lockSetRef"
       /\ Goto(self, "idle", SQLITE_OK, SetRefOne(mtx))
       /\ UNCHANGED entered

pthreadMutexTry(self) ==
    \/ /\ entered[self] < MaxEnter
       /\ Call(self, "Try", "tryRef")
    \/ /\ thr[self].pc = "tryRef"
       /\ TestRef(self, "tryOwner", "tryMutex")
    \/ /\ thr[self].pc = "tryOwner"
       /\ TestOwner(self, "tryInc", "tryMutex")
    \/ /\ thr[self].pc = "tryInc"
       /\ Goto(self, "idle", SQLITE_OK, RefInc(mtx))
       /\ Enter(self)
    \/ /\ thr[self].pc = "tryMutex"
       /\ IF mtx.mutex = NoThread
          THEN /\ Goto(self, "trySetOwner", SQLITE_OK, [mtx EXCEPT !.mutex = self])
               /\ Enter(self)
          ELSE /\ Goto(self, "idle", SQLITE_BUSY, TryBusy(mtx))
               /\ UNCHANGED entered
    \/ /\ thr[self].pc = "trySetOwner"
       /\ Goto(self, "trySetRef", SQLITE_OK, SetOwner(mtx, self))
       /\ UNCHANGED entered
    \/ /\ thr[self].pc = "trySetRef"
       /\ Goto(self, "idle", SQLITE_OK, SetRefOne(mtx))
       /\ UNCHANGED entered

pthreadUnlock(self) ==
    \/ /\ entered[self] > 0
       /\ Call(self, "Unlock", "unlockDec")
    \/ /\ thr[self].pc = "unlockDec"
       /\ Goto(self, "unlockOwner", SQLITE_OK, RefDec(mtx))
       /\ UNCHANGED entered
    \/ /\ thr[self].pc = "unlockOwner"
       /\ Goto(self, "unlockMutex", SQLITE_OK, ClearOwner(mtx))
       /\ UNCHANGED entered
    \/ /\ thr[self].pc = "unlockMutex"
       /\ Goto(self, "idle", SQLITE_OK, ReleaseMutex(mtx))
       /\ Leave(self)

MutexInit ==
    /\ mtx = MutexInitializer
    /\ thr = [t \in Threads |-> ThreadIdle]
    /\ entered = [t \in Threads |-> 0]

MutexIdle ==
    /\ mtx = MutexInitializer
    /\ thr = <<>>
    /\ entered = <<>>

(***************************************************************************)
(* The tokenizer loop of Parse.Run (src/btree/cursor.go): the SQL text is  *)
(* cut into tokens by sqlite3GetToken and each token is handed to the      *)
(* generated parser, while another thread may raise the interrupt flag of  *)
(* the connection at any time.                                             *)
(***************************************************************************)
MaxSql == 3            \* most characters of an SQL text handed to Run
MaxActiveVdbe == 1     \* most statements running on the connection when Run starts

SQLITE_INTERRUPT == "SQLITE_INTERRUPT"
SQLITE_DONE == "SQLITE_DONE"
SQLITE_TOOBIG == "SQLITE_TOOBIG"

TK_SPACE == "TK_SPACE"
TK_ILLEGAL == "TK_ILLEGAL"
TK_SEMI == "TK_SEMI"
TK_MINUS == "TK_MINUS"
TK_ID == "TK_ID"
TK_EQ == "TK_EQ"
TK_NE == "TK_NE"
\* lastTokenParsed := -1
NoToken == "-1"
\* the token code 0 that tells the parser the input has ended
EndOfInput == "0"

\* the characters of the texts tried: white space, the minus sign that also
\* starts a comment, the semicolon, an identifier character, a character no
\* token starts with, and the two characters of the operator !=
SqlChars == {" ", "-", ";", "a", "^", "!", "="}
SqlTexts == SeqsUpTo(SqlChars, MaxSql)

\* z[i] of the NUL-terminated text, i counted from 0
CharAt(z, i) == IF i < Len(z) THEN z[i + 1] ELSE "NUL"

SpaceChars == {" "}
IdChars == {"a"}
\* the characters a "--" comment runs over: all but NUL and the newline
CommentChars == SqlChars \ {"\n"}

\* for( ; z[i] is of the class; i++ ){}
RECURSIVE ScanWhile(_, _, _)
ScanWhile(z, i, class) ==
    IF CharAt(z, i) \in class THEN ScanWhile(z, i + 1, class) ELSE i

\* the length and the type of the token that begins at z[at]
sqlite3GetToken(z, at) ==
    LET c == CharAt(z, at)
    IN CASE c \in SpaceChars ->
              [n |-> ScanWhile(z, at + 1, SpaceChars) - at, tokenType |-> TK_SPACE]
         [] c = "-" ->
              IF CharAt(z, at + 1) = "-"
              THEN [n |-> ScanWhile(z, at + 2, CommentChars) - at, tokenType |-> TK_SPACE]
              ELSE [n |-> 1, tokenType |-> TK_MINUS]
         [] c = ";" -> [n |-> 1, tokenType |-> TK_SEMI]
         [] c = "=" ->
              [n |-> 1 + (IF CharAt(z, at + 1) = "=" THEN 1 ELSE 0), tokenType |-> TK_EQ]
         [] c = "!" ->
              IF CharAt(z, at + 1) # "="
              THEN [n |-> 2, tokenType |-> TK_ILLEGAL]
              ELSE [n |-> 2, tokenType |-> TK_NE]
         [] c \in IdChars ->
              [n |-> ScanWhile(z, at + 1, IdChars) - at, tokenType |-> TK_ID]
         [] OTHER -> [n |-> 1, tokenType |-> TK_ILLEGAL]

\* the state Run works on: the connection, the Parse object, the call's locals
ParseState(d, p, r) == [db |-> d, p |-> p, r |-> r]

NewParse == [rc |-> SQLITE_OK, zErrMsg |-> "", nErr |-> 0, zTail |-> 0]

NoRun ==
    [pc |-> "idle", zSql |-> <<>>, i |-> 0, nErr |-> 0, lastTokenParsed |-> NoToken,
     sLastToken |-> [n |-> 0, tokenType |-> NoToken], fed |-> <<>>,
     pzErrMsg |-> "", ret |-> ""]

\* Parse.SetErrorMsg: records the message and counts the error
SetErrorMsg(p, msg) == [p EXCEPT !.zErrMsg = msg, !.nErr = @ + 1, !.rc = SQLITE_ERROR]

sqlite3ErrStr(rc) == rc

\* what a call of the generated parser can come to
ParserOutcomes == {"ok", "syntax error", "out of memory"}

\* sqlite3Parser: takes the token; a token the grammar rejects leaves an error
\* in pParse, a failed allocation sets db.mallocFailed
sqlite3Parser(st, tokenType, outcome) ==
    [db |-> IF outcome = "out of memory"
            THEN [st.db EXCEPT !.mallocFailed = TRUE] ELSE st.db,
     p |-> IF outcome = "syntax error"
           THEN SetErrorMsg(st.p, "syntax error") ELSE st.p,
     r |-> [st.r EXCEPT !.fed = Append(@, [tokenType |-> tokenType,
                                           interrupted |-> st.db.isInterrupted])]]

\* a Run that never looks at the flag
NeverInterrupted(d) == FALSE

\* if db.u1.isInterrupted
Interrupted(d) == d.isInterrupted

\* one turn of the loop over the text: the next token is cut off and dispatched
RunOneToken(st, outcome) ==
    LET tok == sqlite3GetToken(st.r.zSql, st.r.i)
        i2 == st.r.i + tok.n
        st1 == [st EXCEPT !.r.i = i2, !.r.sLastToken = tok]
    IN IF i2 < 0
       THEN [st1 EXCEPT !.p.rc = SQLITE_TOOBIG, !.r.pc = "abort"]
       ELSE CASE tok.tokenType = TK_SPACE ->
                   IF Interrupted(st.db)
                   THEN [st1 EXCEPT !.p = [SetErrorMsg(@, "interrupt")
                                             EXCEPT !.rc = SQLITE_INTERRUPT],
                                    !.r.pc = "abort"]
                   ELSE st1
              [] tok.tokenType = TK_ILLEGAL ->
                   [st1 EXCEPT !.r.pzErrMsg = "unrecognized token",
                               !.r.nErr = @ + 1, !.r.pc = "abort"]
              [] OTHER ->
                   LET st2 == IF tok.tokenType = TK_SEMI
                              THEN [st1 EXCEPT !.p.zTail = i2] ELSE st1
                       st3 == sqlite3Parser(st2, tok.tokenType, outcome)
                       st4 == [st3 EXCEPT !.r.lastTokenParsed = tok.tokenType]
                   IN IF st4.p.rc # SQLITE_OK
                      THEN [st4 EXCEPT !.r.pc = "abort"] ELSE st4

\* abort_parse and what follows it, up to the return
RunFinish(st, o1, o2) ==
    LET semi == IF st.r.lastTokenParsed # TK_SEMI
                THEN [sqlite3Parser(st, TK_SEMI, o1) EXCEPT !.p.zTail = st.r.i]
                ELSE st
        st1 == IF st.r.i = Len(st.r.zSql) /\ st.r.nErr = 0 /\ st.p.rc = SQLITE_OK
               THEN sqlite3Parser(semi, EndOfInput, o2) ELSE st
        st2 == IF st1.db.mallocFailed THEN [st1 EXCEPT !.p.rc = SQLITE_NOMEM] ELSE st1
        st3 == IF st2.p.rc # SQLITE_OK /\ st2.p.rc # SQLITE_DONE /\ st2.p.zErrMsg = ""
               THEN [st2 EXCEPT !.p.zErrMsg = sqlite3ErrStr(st2.p.rc)] ELSE st2
        st4 == IF st3.p.zErrMsg # ""
               THEN [st3 EXCEPT !.r.pzErrMsg = st3.p.zErrMsg, !.p.zErrMsg = "",
                                !.r.nErr = @ + 1]
               ELSE st3
        st5 == IF st4.r.nErr > 0 /\ st4.p.rc = SQLITE_OK
               THEN [st4 EXCEPT !.p.rc = SQLITE_ERROR] ELSE st4
    IN [st5 EXCEPT !.r.pc = "returned", !.r.ret = "nErr"]

\* Run is called, once in a behaviour: the flag is cleared when no statement is
\* running, the parser engine is allocated, the locals are set up
RunBegin ==
    /\ run.pc = "idle"
    /\ \E zSql \in SqlTexts, cnt \in 0..MaxActiveVdbe, allocated \in BOOLEAN :
         /\ db' = [isInterrupted |-> IF cnt = 0 THEN FALSE ELSE db.isInterrupted,
                   activeVdbeCnt |-> cnt, mallocFailed |-> ~allocated]
         /\ pParse' = NewParse
         /\ run' = IF allocated
                   THEN [NoRun EXCEPT !.pc = "loop", !.zSql = zSql]
                   ELSE [NoRun EXCEPT !.pc = "returned", !.zSql = zSql,
                                      !.ret = SQLITE_NOMEM]

\* for i := 0; !db.mallocFailed && i < len(zSql); { ... }: one turn
RunToken ==
    /\ run.pc = "loop"
    /\ ~db.mallocFailed /\ run.i < Len(run.zSql)
    /\ \E outcome \in ParserOutcomes :
         \E st \in {RunOneToken(ParseState(db, pParse, run), outcome)} :
            /\ db' = st.db
            /\ pParse' = st.p
            /\ run' = st.r

\* the loop has ended or was left by goto abort_parse: Run finishes and returns
RunEnd ==
    /\ \/ run.pc = "abort"
       \/ run.pc = "loop" /\ ~(~db.mallocFailed /\ run.i < Len(run.zSql))
    /\ \E o1 \in ParserOutcomes, o2 \in ParserOutcomes :
         \E st \in {RunFinish(ParseState(db, pParse, run), o1, o2)} :
            /\ db' = st.db
            /\ pParse' = st.p
            /\ run' = st.r

\* another thread interrupts the connection
Interrupt ==
    /\ db' = [db EXCEPT !.isInterrupted = TRUE]
    /\ UNCHANGED <<pParse, run>>

ParseInit ==
    /\ db = [isInterrupted |-> FALSE, activeVdbeCnt |-> 0, mallocFailed |-> FALSE]
    /\ pParse = NewParse
    /\ run = NoRun

ParseIdle == ParseInit

(***************************************************************************)
(* sorterCompare as an operation of its own: the two keys hold the fields  *)
(* pKeyInfo counts and a rowid after them; the field 0 is NULL.            *)
(***************************************************************************)
\* the values of a key's fields: NULL and the bytes records are made of
FieldVals == {0} \cup ByteVals

\* keys of pKeyInfo.nField fields that end in a rowid
CompareKeys == [1..(KeyInfoNField + 1) -> FieldVals]

NoResult == [done |-> FALSE, res |-> 0]

\* VdbeCursor.SorterCompare: pVal against the sorter's current key
SorterCompare(pVal, rowkey, pUnpacked) == sorterCompare(TRUE, pVal, <<rowkey>>, pUnpacked)

CmpInit ==
    /\ cmpIn \in [bOmitRowid : BOOLEAN, pKey1 : CompareKeys, pKey2 : CompareKeys]
    /\ cmpRes = NoResult

CmpIdle ==
    /\ cmpIn = [bOmitRowid |-> FALSE, pKey1 |-> <<>>, pKey2 |-> <<>>]
    /\ cmpRes = NoResult

DoCompare ==
    /\ ~cmpRes.done
    /\ \E c \in {IF cmpIn.bOmitRowid
                 THEN SorterCompare(cmpIn.pKey1, cmpIn.pKey2, sqlite3VdbeSorterInit(Only(PmaSizes)).pUnpacked)
                 ELSE sorterCompare(FALSE, cmpIn.pKey1, <<cmpIn.pKey2>>,
                                    sqlite3VdbeSorterInit(Only(PmaSizes)).pUnpacked)} :
          cmpRes' = [done |-> TRUE, res |-> c.res]
    /\ UNCHANGED cmpIn

(***************************************************************************)
(* MoveToChild on its own, on files that are not well-formed trees: an     *)
(* interior page that is its own child, a child without cells, a child     *)
(* whose integer-key flag differs from its parent's.                       *)
(***************************************************************************)
\* page 1 is the root; page 2 is interior and its own first child; page 3 is
\* an empty leaf; page 4 is a leaf of the other kind; page 5 is a sound leaf
LoopedFile(intKey) ==
    [p \in PageIds |->
       CASE p = 1 -> [PageZero EXCEPT !.free = FALSE, !.leaf = FALSE, !.intKey = intKey,
                        !.cells = <<[key |-> 10, size |-> CHILD_PTR_SIZE, child |-> 2]>>,
                        !.right = 3]
         [] p = 2 -> [PageZero EXCEPT !.free = FALSE, !.leaf = FALSE, !.intKey = intKey,
                        !.cells = <<[key |-> 4, size |-> CHILD_PTR_SIZE, child |-> 2],
                                    [key |-> 6, size |-> CHILD_PTR_SIZE, child |-> 5]>>,
                        !.right = 4]
         [] p = 3 -> [PageZero EXCEPT !.free = FALSE, !.intKey = intKey]
         [] p = 4 -> [PageZero EXCEPT !.free = FALSE, !.intKey = ~intKey,
                        !.cells = <<[key |-> 8, size |-> INTKEY_CELL_SIZE, child |-> 0]>>]
         [] p = 5 -> [PageZero EXCEPT !.free = FALSE, !.intKey = intKey,
                        !.cells = <<[key |-> 5, size |-> INTKEY_CELL_SIZE, child |-> 0]>>]
         [] OTHER -> PageZero]

DescendInit ==
    /\ \E intKey \in BOOLEAN : btPages = LoopedFile(intKey)
    /\ \E cached \in BOOLEAN :
         btCur = [CursorAtRoot(1) EXCEPT !.nSize = IF cached THEN CHILD_PTR_SIZE ELSE 0,
                                         !.validNKey = IF cached THEN 1 ELSE 0]
    /\ btOthers = <<>>
    /\ btPre = [cur |-> btCur, okGet |-> TRUE]
    /\ btPc = "idle"
    /\ btRc = SQLITE_OK
    /\ balInfo = NewBalance("none")
    /\ btOp = NoOp
    /\ btLog = <<>>
    /\ btPins = <<>>

\* the caller reads a child pointer of the cursor's page and moves to it
DoMoveToChild ==
    /\ btPc = "idle"
    /\ \E j \in 0..nCell(btPages[btCur.Pages[btCur.iPage]]), okGet \in BOOLEAN :
         \E pgno \in {ChildAt(btPages[btCur.Pages[btCur.iPage]], j)} :
         \E m \in {MoveToChild(btCur, btPages, pgno, okGet)} :
            /\ btCur' = m.cur
            /\ btRc' = m.rc
            /\ btOp' = [name |-> "MoveToChild", key |-> pgno, iCellDepth |-> btCur.iPage]
            /\ btPre' = [cur |-> btCur, okGet |-> okGet]
    /\ UNCHANGED <<btPages, btOthers, btPc, balInfo, btLog, btPins>>

(***************************************************************************)
(* Specifications: one per subsystem; the other subsystems stay idle.      *)
(***************************************************************************)
InitSorter == SorterInit /\ CellIdle /\ BtIdle /\ MutexIdle /\ ParseIdle /\ CmpIdle

NextSorter ==
    \/ DoSorterWrite /\ UNCHANGED <<cellVars, btVars, mutexVars, parseVars, cmpVars>>
    \/ DoSorterRewind /\ UNCHANGED <<cellVars, btVars, mutexVars, parseVars, cmpVars>>
    \/ DoSorterNext /\ UNCHANGED <<cellVars, btVars, mutexVars, parseVars, cmpVars>>
    \/ DoSorterClose /\ UNCHANGED <<cellVars, btVars, mutexVars, parseVars, cmpVars>>

SpecSorter == InitSorter /\ [][NextSorter]_vars

InitCascade == CascadeInit /\ CellIdle /\ BtIdle /\ MutexIdle /\ ParseIdle /\ CmpIdle

NextCascade ==
    \/ DoCascadeRewind /\ UNCHANGED <<cellVars, btVars, mutexVars, parseVars, cmpVars>>
    \/ DoSorterNext /\ UNCHANGED <<cellVars, btVars, mutexVars, parseVars, cmpVars>>
    \/ DoSorterClose /\ UNCHANGED <<cellVars, btVars, mutexVars, parseVars, cmpVars>>

SpecCascade == InitCascade /\ [][NextCascade]_vars

InitStable == StableInit /\ CellIdle /\ BtIdle /\ MutexIdle /\ ParseIdle /\ CmpIdle

NextStable ==
    \/ DoSorterRewind /\ UNCHANGED <<cellVars, btVars, mutexVars, parseVars, cmpVars>>
    \/ DoSorterNext /\ UNCHANGED <<cellVars, btVars, mutexVars, parseVars, cmpVars>>
    \/ DoSorterClose /\ UNCHANGED <<cellVars, btVars, mutexVars, parseVars, cmpVars>>

SpecStable == InitStable /\ [][NextStable]_vars

InitLong == LongInit /\ CellIdle /\ BtIdle /\ MutexIdle /\ ParseIdle /\ CmpIdle

NextLong ==
    \/ DoSorterRewind /\ UNCHANGED <<cellVars, btVars, mutexVars, parseVars, cmpVars>>
    \/ DoSorterNext /\ UNCHANGED <<cellVars, btVars, mutexVars, parseVars, cmpVars>>
    \/ DoSorterClose /\ UNCHANGED <<cellVars, btVars, mutexVars, parseVars, cmpVars>>

SpecLong == InitLong /\ [][NextLong]_vars

InitCell == CellInit /\ SorterIdle /\ BtIdle /\ MutexIdle /\ ParseIdle /\ CmpIdle

NextCell == DoParsePtr /\ UNCHANGED <<sorterVars, btVars, mutexVars, parseVars, cmpVars>>

SpecCell == InitCell /\ [][NextCell]_vars

InitBtree == BtInit /\ SorterIdle /\ CellIdle /\ MutexIdle /\ ParseIdle /\ CmpIdle

NextBtree ==
    \/ DoDelete /\ UNCHANGED <<sorterVars, cellVars, mutexVars, parseVars, cmpVars>>
    \/ DoInsert /\ UNCHANGED <<sorterVars, cellVars, mutexVars, parseVars, cmpVars>>
    \/ BalanceStep /\ UNCHANGED <<sorterVars, cellVars, mutexVars, parseVars, cmpVars>>
    \/ DeleteResume /\ UNCHANGED <<sorterVars, cellVars, mutexVars, parseVars, cmpVars>>
    \/ InsertResume /\ UNCHANGED <<sorterVars, cellVars, mutexVars, parseVars, cmpVars>>

SpecBtree == InitBtree /\ [][NextBtree]_vars

\* Balance runs to completion once called: its loop is sequential code of the
\* calling thread, so a pass that can be made is made
BalanceProgress ==
    BalanceStep /\ UNCHANGED <<sorterVars, cellVars, mutexVars, parseVars, cmpVars>>

SpecBtreeLive == InitBtree /\ [][NextBtree]_vars /\ WF_vars(BalanceProgress)

InitMutex == MutexInit /\ SorterIdle /\ CellIdle /\ BtIdle /\ ParseIdle /\ CmpIdle

NextMutex ==
    \/ \E self \in Threads : pthreadLock(self) /\ UNCHANGED <<sorterVars, cellVars, btVars, parseVars, cmpVars>>
    \/ \E self \in Threads : pthreadMutexTry(self) /\ UNCHANGED <<sorterVars, cellVars, btVars, parseVars, cmpVars>>
    \/ \E self \in Threads : pthreadUnlock(self) /\ UNCHANGED <<sorterVars, cellVars, btVars, parseVars, cmpVars>>

SpecMutex == InitMutex /\ [][NextMutex]_vars

\* weakly fair scheduling: a thread that is inside one of the three routines
\* and can take its next step takes it
ThreadProgress(self) ==
    /\ thr[self].pc # "idle"
    /\ pthreadLock(self) \/ pthreadMutexTry(self) \/ pthreadUnlock(self)
    /\ UNCHANGED <<sorterVars, cellVars, btVars, parseVars, cmpVars>>

SpecMutexLive ==
    InitMutex /\ [][NextMutex]_vars /\ \A self \in Threads : WF_vars(ThreadProgress(self))

otherThanParse == <<sorterVars, cellVars, btVars, mutexVars, cmpVars>>

InitParse == ParseInit /\ SorterIdle /\ CellIdle /\ BtIdle /\ MutexIdle /\ CmpIdle

NextParse ==
    \/ RunBegin /\ UNCHANGED otherThanParse
    \/ RunToken /\ UNCHANGED otherThanParse
    \/ RunEnd /\ UNCHANGED otherThanParse
    \/ Interrupt /\ UNCHANGED otherThanParse

SpecParse == InitParse /\ [][NextParse]_vars

\* Run is straight-line code of a running thread: a call that was started
\* takes its next turn of the loop, and finishes once the loop has ended
RunProgress == (RunToken \/ RunEnd) /\ UNCHANGED otherThanParse

SpecParseLive == InitParse /\ [][NextParse]_vars /\ WF_vars(RunProgress)

InitCompare == CmpInit /\ SorterIdle /\ CellIdle /\ BtIdle /\ MutexIdle /\ ParseIdle

NextCompare == DoCompare /\ UNCHANGED <<sorterVars, cellVars, btVars, mutexVars, parseVars>>

SpecCompare == InitCompare /\ [][NextCompare]_vars

InitDescend == DescendInit /\ SorterIdle /\ CellIdle /\ MutexIdle /\ ParseIdle /\ CmpIdle

NextDescend == DoMoveToChild /\ UNCHANGED <<sorterVars, cellVars, mutexVars, parseVars, cmpVars>>

SpecDescend == InitDescend /\ [][NextDescend]_vars

(***************************************************************************)
(* Properties of the sorter.                                               *)
(***************************************************************************)
Count(q, x) == Cardinality({i \in 1..Len(q) : q[i] = x})

IsPermutation(a, b) ==
    /\ Len(a) = Len(b)
    /\ \A i \in 1..Len(a) : Count(a, a[i]) = Count(b, a[i])

KeyCompare(k1, k2) == RecordCompare(k1, sqlite3VdbeRecordUnpack(k2))

NonDecreasing(q) == \A i \in 1..(Len(q) - 1) : KeyCompare(q[i], q[i + 1]) <= 0

OnMergePath == pSorter # NilSorter /\ pSorter.aTree # Nil /\ pSorter.aIter # Nil

\* C1: once Rewind and the Rowkey/SorterNext loop have run to eof, the keys
\* handed out are a permutation of the records written and are non-decreasing
\* under the key comparison, on the in-memory path and on the merge path.
C1_SorterOutputSorted ==
    phase = "eof" => IsPermutation(output, written) /\ NonDecreasing(output)

\* the in-memory half of C1, which the code does satisfy
C1_InMemoryOutputSorted ==
    (phase = "eof" /\ pSorter.nPMA = 0) =>
        IsPermutation(output, written) /\ NonDecreasing(output)

C1_InMemoryWitness ==
    phase = "eof" /\ pSorter.nPMA = 0 /\ Len(output) >= 2 /\ output # written

LiveIters == {i \in DOMAIN pSorter.aIter : pSorter.aIter[i].File # NoFile}

Surplus(payload) ==
    cellPage.minLocal + ((payload - cellPage.minLocal) % (cellPage.usableSize - 4))

\* C4: for every declared payload and header size n, ParsePtr yields
\* Local = payload, Overflow = 0, Size = max(n + payload, 4) when
\* payload <= maxLocal; otherwise, with surplus = minLocal + (payload -
\* minLocal) mod (usableSize - 4), Local = surplus if surplus <= maxLocal else
\* minLocal, Overflow = Local + n and Size = Overflow + 4.
C4_ParsePtrSpill ==
    info.parsed =>
        LET payload == cellIn.payload
            n == Len(cellIn.bytes)
        IN /\ info.Payload = payload
           /\ info.Header = n
           /\ IF payload <= cellPage.maxLocal
              THEN /\ info.Local = payload
                   /\ info.Overflow = 0
                   /\ info.Size = (IF n + payload < 4 THEN 4 ELSE n + payload)
              ELSE /\ info.Local = (IF Surplus(payload) <= cellPage.maxLocal
                                    THEN Surplus(payload) ELSE cellPage.minLocal)
                   /\ info.Overflow = info.Local + n
                   /\ info.Size = info.Overflow + 4

\* a spilled cell has been parsed whose surplus fits: Local lies strictly
\* between minLocal and maxLocal and more than one overflow page is needed
C4_Witness ==
    /\ info.parsed
    /\ cellIn.payload > cellPage.maxLocal + cellPage.usableSize
    /\ Surplus(cellIn.payload) < cellPage.maxLocal
    /\ info.Local > cellPage.minLocal

CeilDiv(a, b) == (a + b - 1) \div b

\* C5: a payload of exactly maxLocal is parsed with no overflow; a payload of
\* maxLocal + 1 spills and its non-local bytes fill exactly one overflow page
\* of usableSize - 4 bytes, for page constants with minLocal <= maxLocal and
\* maxLocal + 1 - minLocal <= usableSize - 4.
C5_MaxLocalBoundary ==
    (info.parsed /\ cellPage.minLocal <= cellPage.maxLocal
       /\ cellPage.maxLocal + 1 - cellPage.minLocal <= cellPage.usableSize - 4) =>
        /\ cellIn.payload = cellPage.maxLocal =>
              info.Overflow = 0 /\ info.Local = cellIn.payload
        /\ cellIn.payload = cellPage.maxLocal + 1 =>
              /\ info.Overflow # 0
              /\ CeilDiv(cellIn.payload - info.Local, cellPage.usableSize - 4) = 1

\* a parsed cell of maxLocal + 1 bytes whose spilled bytes fill the page exactly
C5_Witness ==
    /\ info.parsed
    /\ cellIn.payload = cellPage.maxLocal + 1
    /\ cellIn.payload - info.Local = cellPage.usableSize - 4

\* a parsed cell of exactly maxLocal bytes
C5_WitnessInline ==
    info.parsed /\ cellIn.payload = cellPage.maxLocal /\ cellIn.payload > 0

\* the cell parsed was spilled
Spilled == info.parsed /\ cellIn.payload > cellPage.maxLocal

\* C23: a spilled payload keeps between minLocal and maxLocal bytes on the
\* page, for page constants with minLocal <= maxLocal; and Overflow is
\* non-zero exactly when the payload exceeds maxLocal.
C23_LocalWithinBounds ==
    (info.parsed /\ cellPage.minLocal <= cellPage.maxLocal) =>
        /\ Spilled => cellPage.minLocal <= info.Local /\ info.Local <= cellPage.maxLocal
        /\ info.Overflow # 0 <=> cellIn.payload > cellPage.maxLocal

\* a spilled cell whose surplus does not fit: minLocal bytes stay on the page
C23_Witness ==
    /\ Spilled
    /\ Surplus(cellIn.payload) > cellPage.maxLocal
    /\ info.Local = cellPage.minLocal
    /\ cellPage.minLocal < cellPage.maxLocal

\* overflow pages needed when local bytes of the payload stay on the page
OverflowPages(payload, local) == CeilDiv(payload - local, cellPage.usableSize - 4)

Without(q, k) == SelectSeq(q, LAMBDA x : x # k)

StrictlyAscending(q) == \A i \in 1..(Len(q) - 1) : q[i] < q[i + 1]

\* the page and the index the cursor stood on when the operation was called
PrePage == btPre.pages[btPre.cur.Pages[btPre.cur.iPage]]

PreIdx == btPre.cur.aiIdx[btPre.cur.iPage]

DeletedFromInternal ==
    /\ btOp.name = "Delete"
    /\ btPre.cur.eState = CURSOR_VALID
    /\ PreIdx < nCell(PrePage)
    /\ ~PrePage.leaf

\* C3: after a successful Delete of an entry on an internal page the keys of
\* the tree in order are the keys before the call without the deleted key,
\* and they are strictly ascending.
C3_DeleteInternalKeys ==
    (btPc = "done" /\ DeletedFromInternal /\ btRc = SQLITE_OK) =>
        /\ TreeKeys(btPages, btCur.RootPage) = Without(btPre.keys, btOp.key)
        /\ StrictlyAscending(TreeKeys(btPages, btCur.RootPage))

\* the depths of the pages Balance was entered with, and of the child that
\* balance_deeper has made
BalancePath ==
    (0..balInfo.entry) \cup (IF balInfo.deeper > 0 /\ btCur.iPage >= 1 THEN {1} ELSE {})

\* C6: when Balance returns SQLITE_OK no page of the cursor's path at entry
\* and no child made by balance_deeper has staged cells, and every such page
\* but the root has nFree <= usableSize*2/3.
C6_BalancePostcondition ==
    (btPc = "balanceReturn" /\ btRc = SQLITE_OK) =>
        \A d \in BalancePath :
            LET pg == btPages[btCur.Pages[d]]
            IN ~pg.free =>
                  /\ nOverflow(pg) = 0
                  /\ (d > 0 => nFree(pg) <= (UsableSize * 2) \div 3)

\* C7: once a step of Balance has failed, Balance makes no further call and
\* returns the code of that first failure.
C7_BalanceFirstError ==
    /\ ~balInfo.late
    /\ (btPc = "balanceReturn" => btRc = balInfo.firstErr)

\* C8: one call of Balance calls balance_deeper at most once and
\* balance_quick at most once.
C8_DeeperQuickOnce ==
    balInfo.deeper <= 1 /\ balInfo.quick <= 1

GuardFailed ==
    /\ btOp.name = "Delete"
    /\ btPre.cur.eState # CURSOR_VALID \/ PreIdx >= nCell(PrePage)

\* C9: Delete on a cursor that is not valid, or whose index is not smaller
\* than the cell count of its page, returns SQLITE_ERROR and changes no
\* page, no cursor and makes no call.
C9_DeleteGuardNoChange ==
    GuardFailed =>
        /\ btPc = "done"
        /\ btRc = SQLITE_ERROR
        /\ btPages = btPre.pages
        /\ btCur = btPre.cur
        /\ btOthers = btPre.others
        /\ btLog = <<>>

C9_Witness ==
    /\ GuardFailed
    /\ btPre.cur.eState # CURSOR_VALID
    /\ PreIdx < nCell(PrePage)
    /\ \E o \in DOMAIN btPre.others :
          btPre.others[o].RootPage = btPre.cur.RootPage /\ btPre.others[o].eState = CURSOR_VALID

C9_WitnessIndex ==
    /\ GuardFailed
    /\ btPre.cur.eState = CURSOR_VALID
    /\ PreIdx = nCell(PrePage)

PageChanges == {"write", "clear", "drop", "writeLeaf", "insert", "dropLeaf"}

SameRootValid(o) ==
    btPre.others[o].RootPage = btPre.cur.RootPage /\ btPre.others[o].eState = CURSOR_VALID

\* C10: when Delete makes the target page writable, frees the overflow
\* chain, drops or inserts a cell, every other cursor that was valid on the
\* same root has been saved already, and the deleting cursor is not saved.
C10_SavedBeforeChange ==
    \A i \in 1..Len(btLog) :
        btLog[i].ev \in PageChanges =>
            /\ \A o \in DOMAIN btPre.others :
                  SameRootValid(o) => btLog[i].others[o].eState = CURSOR_REQUIRESEEK
            /\ btLog[i].self = CURSOR_VALID

C10_Witness ==
    /\ \E i \in 1..Len(btLog) : btLog[i].ev = "drop"
    /\ \E o \in DOMAIN btPre.others : SameRootValid(o)

\* C11: at every return from Balance and from Delete the cursor holds one
\* reference on each page Pages[0..iPage] of its path and none on any other
\* page.
C11_PinsFollowPath ==
    (btPc = "balanceReturn" \/ (btPc = "done" /\ btOp.name = "Delete")) =>
        btPins = PathPins(btCur)

(***************************************************************************)
(* Properties of the recursive mutex.                                      *)
(***************************************************************************)
\* C12: under every interleaving of the steps of pthreadLock, pthreadMutexTry
\* and pthreadUnlock at most one thread is inside the mutex, so a thread that
\* entered n times has to exit n times before another thread gets in; the
\* thread inside is the one holding the pthread mutex.
C12_MutualExclusion ==
    \A t \in Threads :
        entered[t] > 0 =>
            /\ mtx.mutex = t
            /\ \A u \in Threads \ {t} : entered[u] = 0

\* one thread is inside twice over while another one waits in pthreadLock
C12_Witness ==
    \E t \in Threads : \E u \in Threads \ {t} :
        /\ entered[t] = 2
        /\ thr[t].pc = "idle"
        /\ thr[u].pc = "lockMutex"

TryReturns(self) ==
    thr[self].op = "Try" /\ thr[self].pc # "idle" /\ thr'[self].pc = "idle"

OthersInside(self) == \E u \in Threads \ {self} : entered[u] > 0

\* a thread inside pthreadMutexTry can always take its next step
TryNeverBlocks ==
    \A self \in Threads :
        (thr[self].op = "Try" /\ thr[self].pc # "idle") => ENABLED pthreadMutexTry(self)

TryOutcome(self) ==
    TryReturns(self) =>
        /\ thr'[self].rc \in {SQLITE_OK, SQLITE_BUSY}
        /\ thr'[self].rc = SQLITE_BUSY <=> OthersInside(self)
        /\ thr'[self].rc = SQLITE_BUSY =>
               /\ ~thr'[self].wrote
               /\ mtx' = mtx
               /\ entered' = entered
               /\ entered[self] = thr[self].n0
        /\ thr'[self].rc = SQLITE_OK =>
               /\ entered'[self] = thr[self].n0 + 1
               /\ mtx'.nRef = entered'[self]
               /\ mtx'.owner = self
               /\ mtx'.mutex = self

\* C13: pthreadMutexTry never blocks; it returns SQLITE_BUSY, without having
\* written owner or nRef, exactly when another thread is inside the mutex, and
\* otherwise SQLITE_OK with the caller's entry count one higher than at the
\* call (1 on a free mutex, one more on re-entry).
C13_TryBusyIffOtherInside ==
    /\ []TryNeverBlocks
    /\ [][\A self \in Threads : TryOutcome(self)]_vars

\* pthreadMutexTry returned SQLITE_BUSY to a thread while the other one was
\* inside twice over
C13_Witness ==
    \E t \in Threads : \E u \in Threads \ {t} :
        /\ thr[t].op = "Try"
        /\ thr[t].pc = "idle"
        /\ thr[t].rc = SQLITE_BUSY
        /\ entered[u] = 2

\* pthreadMutexTry returned SQLITE_OK on re-entry
C13_WitnessReentry ==
    \E t \in Threads :
        /\ thr[t].op = "Try"
        /\ thr[t].pc = "idle"
        /\ thr[t].rc = SQLITE_OK
        /\ thr[t].n0 = 1
        /\ entered[t] = 2

(***************************************************************************)
(* Properties of the cascaded merge.                                       *)
(***************************************************************************)
\* the PMA count left for the streamed merge, and the passes it takes
RECURSIVE FinalPMAs(_)
FinalPMAs(n) ==
    IF n <= SORTER_MAX_MERGE_COUNT THEN n
    ELSE FinalPMAs(CeilDiv(n, SORTER_MAX_MERGE_COUNT))

RECURSIVE PassCount(_)
PassCount(n) ==
    IF n <= SORTER_MAX_MERGE_COUNT THEN 0
    ELSE 1 + PassCount(CeilDiv(n, SORTER_MAX_MERGE_COUNT))

\* the offset after k PMAs laid end to end from offset off: each is a varint
\* byte count followed by that many bytes
RECURSIVE PMAsEnd(_, _, _)
PMAsEnd(data, off, k) ==
    IF k = 0 THEN off
    ELSE LET vr == GetVarint(<<At(data, off + 1), At(data, off + 2)>>)
         IN PMAsEnd(data, off + vr.n + vr.v, k - 1)

Rewound == phase \in {"reading", "eof"} /\ srtRc = SQLITE_OK

\* Rewind came back
RewindReturns == phase # "hung"

\* the pass arithmetic: nPMA went down to ceil(nPMA / 16) per pass, the files
\* were swapped once per pass and the file not in use was closed
PassArithmetic ==
    Rewound =>
        LET n == Len(written)
        IN /\ pSorter.nPMA = FinalPMAs(n)
           /\ PassCount(n) = 0 => pSorter.pTemp1 = 1 /\ Len(env.files) = 1
           /\ PassCount(n) > 0 =>
                  /\ Len(env.files) = 2
                  /\ pSorter.pTemp1 = 1 + (PassCount(n) % 2)
                  /\ ~env.files[3 - pSorter.pTemp1].open

\* the file left for the streamed merge holds nPMA PMAs end to end
OnePMAPerGroup ==
    Rewound =>
        PMAsEnd(env.files[pSorter.pTemp1].data, 0, pSorter.nPMA) = pSorter.iWriteOff

\* SorterNext writes to no file
StreamedMergeWritesNothing ==
    [][phase = "reading" =>
          \A f \in 1..Len(env.files) : env'.files[f].data = env.files[f].data]_vars

\* C14: Rewind over more than 16 PMAs merges them 16 at a time into one PMA per
\* group on the second file, swaps the files and sets nPMA to ceil(nPMA / 16)
\* until nPMA <= 16 (39 PMAs: one pass, 3 PMAs left), and it returns for every
\* PMA count.
C14_CascadedPasses == RewindReturns /\ PassArithmetic /\ OnePMAPerGroup

(***************************************************************************)
(* Properties of the PMA iterators.                                        *)
(***************************************************************************)
\* the offsets at which a record ends in the PMA body data[off+1..eof]
RECURSIVE RecordEnds(_, _, _)
RecordEnds(data, off, eof) ==
    IF off >= eof THEN {}
    ELSE LET vr == GetVarint(<<At(data, off + 1), At(data, off + 2)>>)
             end == off + vr.n + vr.v
         IN {end} \cup RecordEnds(data, end, eof)

\* the record of the PMA body that ends at offset pos
RECURSIVE RecordEndingAt(_, _, _)
RecordEndingAt(data, off, pos) ==
    LET vr == GetVarint(<<At(data, off + 1), At(data, off + 2)>>)
        end == off + vr.n + vr.v
    IN IF end >= pos THEN SubSeq(data, off + vr.n + 1, end)
       ELSE RecordEndingAt(data, end, pos)

\* iterator i stands on a record of the i-th PMA of pTemp1
IterOnRecord(i) ==
    LET data == env.files[pSorter.pTemp1].data
        start == PMAsEnd(data, 0, i)
        hdr == GetVarint(<<At(data, start + 1), At(data, start + 2)>>)
        first == start + hdr.n
        it == pSorter.aIter[i]
    IN it.File # NoFile =>
          /\ it.iEof = first + hdr.v
          /\ it.iReadOff \in RecordEnds(data, first, it.iEof)
          /\ it.Key = RecordEndingAt(data, first, it.iReadOff)

\* C15: after InitializeIterator and after every Next that returned SQLITE_OK
\* an iterator that is not at EOF has iEof at the end of its PMA, iReadOff on
\* the boundary after one of the PMA's records, and that record as its key.
C15_IteratorOnRecordBoundary ==
    (OnMergePath /\ srtRc = SQLITE_OK /\ phase \in {"reading", "eof"}) =>
        \A i \in 0..(pSorter.nPMA - 1) : IterOnRecord(i)

\* C16: the temp file the sorter reads its PMAs from, whether written by
\* vdbeSorterListToPMA or by a cascaded merge pass, extends at least 8 bytes
\* past its last PMA byte, so that 9 bytes can be read from any offset inside
\* a PMA.
C16_TempFilePadded ==
    (/\ phase \in {"writing", "reading", "eof"}
     /\ srtRc = SQLITE_OK
     /\ pSorter.pTemp1 # NoFile) =>
        Len(env.files[pSorter.pTemp1].data) >= pSorter.iWriteOff + 8

(***************************************************************************)
(* Properties of SorterWrite.                                              *)
(***************************************************************************)
\* the step is a SorterWrite call in which no host call fails
WriteStep == phase = "writing" /\ call'.op = "Write" /\ call'.failAt = 0

\* inMemoryBytes after adding the record
BytesAfterAdd == pSorter.nInMemory + VarintLen(Len(call'.pVal)) + Len(call'.pVal)

SizeTest ==
    \/ BytesAfterAdd > pSorter.mxPmaSize
    \/ (BytesAfterAdd > pSorter.mnPmaSize /\ call'.heapNearlyFull)

\* the list, the new record included, went to a new PMA
Flushed ==
    /\ pSorter'.nPMA = pSorter.nPMA + 1
    /\ pSorter'.pRecord = <<>>
    /\ pSorter'.nInMemory = 0
    /\ pSorter'.pTemp1 # NoFile
    /\ Len(env'.files[pSorter'.pTemp1].data) = pSorter'.iWriteOff + 8
    /\ pSorter'.iWriteOff =
          pSorter.iWriteOff + VarintLen(BytesAfterAdd) + BytesAfterAdd

\* the record stayed in memory and nothing was written
KeptInMemory ==
    /\ pSorter'.nPMA = pSorter.nPMA
    /\ pSorter'.pRecord = <<call'.pVal>> \o pSorter.pRecord
    /\ pSorter'.nInMemory = BytesAfterAdd
    /\ env'.files = env.files

C17_WitnessNoLimit ==
    /\ call.op = "Write"
    /\ call.failAt = 0
    /\ pSorter.mxPmaSize = 0
    /\ pSorter.nInMemory > 0
    /\ pSorter.nPMA = 0
    /\ Len(pSorter.pRecord) = 2

(***************************************************************************)
(* Properties of the sorter with no record and with one record.            *)
(***************************************************************************)
\* Rewind of a sorter that received no record reported EOF
EmptyRewindIsEof ==
    (written = <<>> /\ call.op = "Rewind") =>
        /\ bEof
        /\ srtRc = SQLITE_OK => phase = "eof"

FramedSize(rec) == VarintLen(Len(rec)) + Len(rec)

C18_WitnessEmpty == written = <<>> /\ call.op = "Rewind" /\ phase = "eof"

(***************************************************************************)
(* Properties of the temp files.                                           *)
(***************************************************************************)
\* no call was made on a file after its close
NoUseAfterClose == \A f \in 1..Len(env.files) : ~env.files[f].late

NextTokenType == sqlite3GetToken(run.zSql, run.i).tokenType

\* a step that is one turn of Run's loop
TokenStep == run.pc = "loop" /\ run'.i > run.i

\* the step left the loop for abort_parse with SQLITE_INTERRUPT and handed
\* nothing to the parser
StoppedByInterrupt ==
    /\ run'.pc = "abort"
    /\ pParse'.rc = SQLITE_INTERRUPT
    /\ run'.fed = run.fed

\* a Run that was stopped by the flag hands nothing more to the parser and
\* returns with rc = SQLITE_INTERRUPT
InterruptedRunEnds ==
    /\ [][run.pc = "abort" /\ pParse.rc = SQLITE_INTERRUPT
            => run'.fed = run.fed /\ pParse'.rc = SQLITE_INTERRUPT]_vars
    /\ (run.pc = "abort" /\ pParse.rc = SQLITE_INTERRUPT)
          ~> (run.pc = "returned" /\ pParse.rc = SQLITE_INTERRUPT)

\* C20: if the interrupt flag is set when Run is about to process its next
\* token, whatever the token's type, Run stops without handing the token to
\* the parser and ends with rc = SQLITE_INTERRUPT.
C20_InterruptStopsAtAnyToken ==
    /\ [][TokenStep /\ db.isInterrupted => StoppedByInterrupt]_vars
    /\ InterruptedRunEnds

\* C20, as the code has it: the flag is looked at when the next token is white
\* space or a comment; if it is set then, Run stops without handing anything
\* more to the parser and ends with rc = SQLITE_INTERRUPT. Any other token but
\* an illegal one is handed to the parser whether the flag is set or not.
C20_InterruptStopsAtSpace ==
    /\ [][TokenStep /\ db.isInterrupted /\ NextTokenType = TK_SPACE
            => StoppedByInterrupt]_vars
    /\ [][TokenStep /\ NextTokenType \notin {TK_SPACE, TK_ILLEGAL}
            => run'.fed = Append(run.fed, [tokenType |-> NextTokenType,
                                           interrupted |-> db.isInterrupted])]_vars
    /\ InterruptedRunEnds

\* Run has returned SQLITE_INTERRUPT after a token was handed to the parser
\* and before the end of the text
C20_Witness ==
    /\ run.pc = "returned"
    /\ pParse.rc = SQLITE_INTERRUPT
    /\ Len(run.fed) = 1
    /\ run.i < Len(run.zSql)

\* a token was handed to the parser while the flag was set
C20_WitnessHandedOver ==
    \E k \in 1..Len(run.fed) : run.fed[k].interrupted /\ run.fed[k].tokenType = TK_ID

(***************************************************************************)
(* Properties of sorterCompare.                                            *)
(***************************************************************************)
\* the key holds a NULL among the fields pKeyInfo counts
HasNull(pKey) == \E i \in 1..KeyInfoNField : pKey[i] = 0

\* C21: with bOmitRowid set, a key1 that holds a NULL among its first nField
\* fields compares as less than key2, whatever key2 is.
C21_NullKeyIsLess ==
    cmpRes.done /\ cmpIn.bOmitRowid /\ HasNull(cmpIn.pKey1) => cmpRes.res < 0

\* what the code does: the result is -1 whenever key2 holds a NULL
C21_NullInKey2IsLess ==
    cmpRes.done /\ cmpIn.bOmitRowid /\ HasNull(cmpIn.pKey2) => cmpRes.res = -1

(***************************************************************************)
(* Properties of MoveToChild.                                              *)
(***************************************************************************)
\* the last step was a MoveToChild call that got the page it asked for
ChildFetched ==
    /\ btOp.name = "MoveToChild"
    /\ btPre.cur.iPage < BTCURSOR_MAX_DEPTH - 1
    /\ btPre.okGet
    /\ btOp.key \in PageIds
    /\ ~btPages[btOp.key].free

ParentOfMove == btPages[btPre.cur.Pages[btPre.cur.iPage]]

\* C22: MoveToChild returns SQLITE_CORRUPT when the cursor is at depth
\* BTCURSOR_MAX_DEPTH-1 already, and when the child page it got has no cells
\* or an integer-key flag that differs from its parent's; the cursor's depth
\* never exceeds BTCURSOR_MAX_DEPTH-1.
C22_MoveToChildCorrupt ==
    /\ btCur.iPage <= BTCURSOR_MAX_DEPTH - 1
    /\ btOp.name = "MoveToChild" /\ btPre.cur.iPage >= BTCURSOR_MAX_DEPTH - 1
          => btRc = SQLITE_CORRUPT /\ btCur = btPre.cur
    /\ ChildFetched /\ nCell(btPages[btOp.key]) < 1 => btRc = SQLITE_CORRUPT
    /\ ChildFetched /\ btPages[btOp.key].intKey # ParentOfMove.intKey
          => btRc = SQLITE_CORRUPT

\* MoveToChild was refused at the deepest slot of the cursor
C22_Witness ==
    /\ btOp.name = "MoveToChild"
    /\ btPre.cur.iPage = BTCURSOR_MAX_DEPTH - 1
    /\ btRc = SQLITE_CORRUPT

\* MoveToChild moved onto a child of the other kind and reported it
C22_WitnessFlag ==
    /\ ChildFetched
    /\ btPages[btOp.key].intKey # ParentOfMove.intKey
    /\ nCell(btPages[btOp.key]) >= 1
    /\ btRc = SQLITE_CORRUPT

\* MoveToChild moved onto a child without cells and reported it
C22_WitnessEmpty ==
    /\ ChildFetched
    /\ nCell(btPages[btOp.key]) < 1
    /\ btPages[btOp.key].intKey = ParentOfMove.intKey
    /\ btRc = SQLITE_CORRUPT

(***************************************************************************)
(* Properties of Balance's choice of routine.                              *)
(***************************************************************************)
BalPage == btPages[btCur.Pages[btCur.iPage]]
BalParentNo == btCur.Pages[btCur.iPage - 1]
BalParent == btPages[BalParentNo]

\* Balance is about to pass through its loop on a page below the root that is
\* overfull or less than a third full
NonRootNeedsBalance ==
    /\ btPc = "balance"
    /\ btCur.iPage > 0
    /\ ~(nOverflow(BalPage) = 0 /\ nFree(BalPage) <= (UsableSize * 2) \div 3)

\* one overflow cell, meant for the end of the page, on the right-most child
OneCellAtTheEnd ==
    /\ nOverflow(BalPage) = 1
    /\ BalPage.aOvfl[1].idx = nCell(BalPage)
    /\ nCell(BalParent) = btCur.aiIdx[btCur.iPage - 1]

\* the pass made one of the two calls, and the quick one exactly when cond
ChoiceIs(cond) ==
    balInfo'.last # "write failed" =>
        /\ balInfo'.last \in {"balance_quick", "BalanceNonroot"}
        /\ balInfo'.last = "balance_quick" <=> cond

\* C25: in a pass of Balance on a non-root page that needs balancing,
\* balance_quick is chosen exactly when the page has one overflow cell, meant
\* for position nCell, the parent is not the root of the tree and the page is
\* the parent's right-most child; otherwise BalanceNonroot is chosen.
C25_QuickChosen ==
    [][NonRootNeedsBalance
         => ChoiceIs(OneCellAtTheEnd /\ BalParentNo # btCur.RootPage)]_vars

\* C25, as the code has it: balance_quick is chosen exactly when the page
\* holds data (a table leaf), has one overflow cell meant for position nCell,
\* the parent is not page 1 of the file and the page is the parent's
\* right-most child; otherwise BalanceNonroot is chosen; neither is called
\* when the parent cannot be made writable.
C25_QuickChosenOnDataPage ==
    [][NonRootNeedsBalance
         => ChoiceIs(BalPage.hasData /\ OneCellAtTheEnd /\ BalParentNo # 1)]_vars

\* balance_quick has been called in a tree whose root is not page 1, on a
\* child of the root
C25_Witness ==
    /\ balInfo.last = "balance_quick"
    /\ btCur.RootPage # 1
    /\ btCur.iPage = 0

\* BalanceNonroot has been called on an index page
C25_WitnessNonroot ==
    /\ balInfo.last = "BalanceNonroot"
    /\ ~btPages[btCur.RootPage].intKey

\* a pass of Balance's loop that called balance_deeper
DeeperPass == btPc = "balance" /\ balInfo'.last = "balance_deeper"

\* the cursor stands on the root, which has overflow cells
AtOverfullRoot == btCur.iPage = 0 /\ nOverflow(BalPage) > 0

\* after the pass the cursor stands at depth 1, first slot on both levels, on
\* a page that carries the cells the root could not hold
OnNewChild ==
    /\ btCur'.iPage = 1
    /\ btCur'.aiIdx[0] = 0
    /\ btCur'.aiIdx[1] = 0
    /\ btPages[btCur'.Pages[1]].free
    /\ btPages'[btCur'.Pages[1]].aOvfl = BalPage.aOvfl

\* C26: balance_deeper is called only at depth 0 on a root with overflow
\* cells; when it succeeds the cursor is at depth 1, at index 0 on both
\* levels, on the new child that carries the overflow cells, and the same
\* call of Balance makes another pass, on that child, before it returns.
C26_DeeperThenChild ==
    [][DeeperPass =>
         /\ AtOverfullRoot
         /\ btRc' = SQLITE_OK => (OnNewChild /\ btPc' = "balance")]_vars

\* C26 without its last part: where balance_deeper is called and where it
\* leaves the cursor
C26_DeeperMovesCursor ==
    [][DeeperPass => (AtOverfullRoot /\ (btRc' = SQLITE_OK => OnNewChild))]_vars

\* Balance has returned OK straight after balance_deeper, the new child still
\* holding its overflow cells
C26_Witness ==
    /\ btPc = "balanceReturn"
    /\ balInfo.last = "balance_deeper"
    /\ btRc = SQLITE_OK
    /\ nOverflow(btPages[btCur.Pages[1]]) > 0

ScratchSpace == balInfo.space

\* C27: every pSpace buffer allocated in Balance is freed exactly once by
\* the time Balance returns, whatever the calls returned; between two passes
\* of the loop only the buffer of the latest BalanceNonroot call is still
\* allocated, so the one before it was freed right after that call; no more
\* than two buffers are allocated at one moment and none is freed twice.
C27_ScratchFreedOnce ==
    /\ \A i \in 1..Len(ScratchSpace.frees) :
         /\ ScratchSpace.frees[i] <= 1
         /\ btPc = "balance" => (ScratchSpace.frees[i] = 0 <=> i = ScratchSpace.pFree)
         /\ btPc # "balance" => ScratchSpace.frees[i] = 1
    /\ ScratchSpace.peak <= 2

\* Balance has returned after two calls of BalanceNonroot, the first of them
\* failed, and two buffers were allocated at one moment
C27_Witness ==
    /\ btPc = "balanceReturn"
    /\ Len(ScratchSpace.frees) = 2
    /\ ScratchSpace.peak = 2
    /\ balInfo.firstErr # SQLITE_OK

\* the pages from pgno down to the right-most leaf below it
RECURSIVE RightmostPages(_, _)
RightmostPages(pgs, pgno) ==
    IF pgs[pgno].leaf \/ pgs[pgno].right \notin PageIds THEN {pgno}
    ELSE {pgno} \cup RightmostPages(pgs, pgs[pgno].right)

\* the pages under the cursor when Delete first calls Balance: from the root
\* to the page of the deleted entry, then to the leaf of the entry before it
OriginalPath ==
    {btPre.cur.Pages[d] : d \in 0..btPre.cur.iPage}
        \cup RightmostPages(btPre.pages, FindCell(PrePage, PreIdx).child)

\* the first Balance of a Delete on an internal page has returned OK with the
\* cursor below that page
StoppedBelowCell ==
    /\ btPc = "balanceReturn"
    /\ balInfo.caller = "delete1"
    /\ DeletedFromInternal
    /\ btRc = SQLITE_OK
    /\ btCur.iPage > btOp.iCellDepth

\* C28, the two calls: the first Balance of a Delete on an internal page at
\* depth d starts on the leaf; when it returns OK with the cursor deeper than
\* d the cursor is walked up to depth d and Balance is called again.
C28_SecondBalance ==
    [][/\ (DeletedFromInternal' /\ balInfo'.caller = "delete1" /\ btPc = "idle")
            => balInfo'.entry > btOp'.iCellDepth /\ btPages'[btCur'.Pages[btCur'.iPage]].leaf
       /\ StoppedBelowCell
            => /\ btPc' = "balance"
               /\ balInfo'.caller = "delete2"
               /\ btCur'.iPage = btOp.iCellDepth]_vars

\* C28: after a Delete of an entry on an internal page has returned OK, no
\* page of the cursor's path at the first call of Balance has staged cells,
\* and none but the root is more than two thirds empty.
C28_DeleteRebalances ==
    (btPc = "done" /\ DeletedFromInternal /\ btRc = SQLITE_OK) =>
        \A p \in OriginalPath :
            ~btPages[p].free =>
                /\ nOverflow(btPages[p]) = 0
                /\ (p # btPre.cur.RootPage => nFree(btPages[p]) <= (UsableSize * 2) \div 3)

(***************************************************************************)
(* Properties of the flush to a PMA.                                       *)
(***************************************************************************)
\* the step is a call of SorterWrite or of Rewind that returned SQLITE_OK and
\* went through vdbeSorterListToPMA
FlushStep ==
    /\ phase = "writing"
    /\ srtRc' = SQLITE_OK
    /\ \/ call'.op = "Write" /\ pSorter.mxPmaSize > 0 /\ SizeTest
       \/ call'.op = "Rewind" /\ pSorter.nPMA > 0

\* the in-memory list handed to the flush
FlushList ==
    IF call'.op = "Write" THEN <<call'.pVal>> \o pSorter.pRecord ELSE pSorter.pRecord

\* the ways of putting the list q in another order
Orders(q) ==
    {[i \in 1..Len(q) |-> q[f[i]]] :
        f \in {g \in [1..Len(q) -> 1..Len(q)] :
                 \A i, j \in 1..Len(q) : g[i] = g[j] => i = j}}

\* the records one after the other, each behind the varint of its length
RECURSIVE Framed(_)
Framed(q) ==
    IF q = <<>> THEN <<>>
    ELSE PutVarint(Len(Head(q))) \o Head(q) \o Framed(Tail(q))

PmaImage(q) == PutVarint(Len(Framed(q))) \o Framed(q) \o eightZeros

\* what the file holds from the old write offset on
WrittenFrom(e, s, off) ==
    IF s.pTemp1 = NoFile THEN <<>>
    ELSE SubSeq(e.files[s.pTemp1].data, off + 1, Len(e.files[s.pTemp1].data))

FileBytes(e, s) == IF s.pTemp1 = NoFile THEN <<>> ELSE e.files[s.pTemp1].data

\* C29: a successful flush of a non-empty list writes, at the write offset,
\* the varint of the total, the records in non-decreasing key order, each as
\* the varint of its length and its bytes, and 8 zero bytes; nPMA grows by
\* one, iWriteOff by the length of the varint of the total plus the total,
\* and the list is empty afterwards.  A flush of an empty list writes nothing
\* and leaves nPMA and iWriteOff as they were.
C29_FlushWritesOnePMA ==
    [][FlushStep =>
         IF FlushList # <<>>
         THEN /\ \E q \in Orders(FlushList) :
                    /\ NonDecreasing(q)
                    /\ WrittenFrom(env', pSorter', pSorter.iWriteOff) = PmaImage(q)
              /\ pSorter'.nPMA = pSorter.nPMA + 1
              /\ pSorter'.iWriteOff = pSorter.iWriteOff
                    + VarintLen(Len(Framed(FlushList))) + Len(Framed(FlushList))
              /\ pSorter'.pRecord = <<>>
         ELSE /\ FileBytes(env', pSorter') = FileBytes(env, pSorter)
              /\ pSorter'.nPMA = pSorter.nPMA
              /\ pSorter'.iWriteOff = pSorter.iWriteOff]_vars

\* a flush has put two records into the second PMA of the file, the one
\* written last coming first in the file
C29_Witness ==
    /\ call.op = "Write"
    /\ srtRc = SQLITE_OK
    /\ pSorter.nPMA = 2
    /\ pSorter.pRecord = <<>>
    /\ Len(written) = 3
    /\ KeyCompare(written[3], written[2]) < 0
    /\ pSorter.iWriteOff = 8

\* Rewind has gone through a flush with nothing in memory
C29_WitnessEmpty ==
    /\ call.op = "Rewind"
    /\ srtRc = SQLITE_OK
    /\ pSorter.nPMA = 1
    /\ Len(written) = 2

(***************************************************************************)
(* Properties of the byte count of the in-memory list.                     *)
(***************************************************************************)
\* the bytes the in-memory list takes in a PMA
ListBytes(s) == Len(Framed(s.pRecord))

\* no call yet, or the last call was a SorterWrite, whatever it returned
AfterWrites == phase \in {"writing", "error"} /\ call.op \in {"none", "Write"}

\* the step is a SorterWrite that wrote the list out and returned SQLITE_OK
WriteFlushStep == FlushStep /\ call'.op = "Write"

\* the header of the PMA the step wrote says as many bytes as the records
\* written behind it take
HeaderIsBytesWritten ==
    \E q \in Orders(FlushList) :
        WrittenFrom(env', pSorter', pSorter.iWriteOff) = PmaImage(q)

\* C30: after any sequence of SorterWrite calls, those that failed with
\* SQLITE_NOMEM and those that flushed included, nInMemory is the sum of
\* varintLen(len) + len over the records of the in-memory list; hence the
\* header of every PMA written says the bytes of the records written for it.
C30_InMemoryBytes ==
    [][/\ AfterWrites => pSorter.nInMemory = ListBytes(pSorter)
       /\ AfterWrites' => pSorter'.nInMemory = ListBytes(pSorter')
       /\ WriteFlushStep => HeaderIsBytesWritten]_vars

\* C30 for the calls that returned SQLITE_OK: after any sequence of
\* SorterWrite calls that all returned SQLITE_OK, those that flushed
\* included, nInMemory is the sum of varintLen(len) + len over the records of
\* the in-memory list, and the header of every PMA written says the bytes of
\* the records written for it.
C30_InMemoryBytesAfterOk ==
    [][/\ (AfterWrites /\ srtRc = SQLITE_OK)
            => pSorter.nInMemory = ListBytes(pSorter)
       /\ (AfterWrites' /\ srtRc' = SQLITE_OK)
            => pSorter'.nInMemory = ListBytes(pSorter')
       /\ WriteFlushStep => HeaderIsBytesWritten]_vars

\* a record is in memory after an earlier SorterWrite flushed two
C30_Witness ==
    /\ phase = "writing"
    /\ call.op = "Write"
    /\ pSorter.nPMA = 1
    /\ pSorter.iWriteOff = 5
    /\ Len(pSorter.pRecord) = 1

\* a SorterWrite has failed with SQLITE_NOMEM and the count includes the
\* record that was not added
C30_WitnessNomem ==
    /\ call.op = "Write"
    /\ srtRc = SQLITE_NOMEM
    /\ call.failAt = 1
    /\ pSorter.nInMemory > ListBytes(pSorter)

(***************************************************************************)
(* Properties of the iterator's buffer.                                    *)
(***************************************************************************)
\* the capacity of an iterator's Data buffer: the ITER_ALLOC bytes of
\* InitializeIterator; the larger buffer made in Next is not stored
DataCapacity(pIter) == ITER_ALLOC

\* the step is a Rewind or a SorterNext on the merge path with no fault
IterStep ==
    /\ call'.failAt = 0
    /\ \/ call'.op = "Rewind" /\ phase = "writing" /\ pSorter.nPMA > 0
       \/ call'.op = "Next" /\ phase = "reading" /\ OnMergePath

\* the iterator has a key and its buffer holds the key behind its varint
KeyFitsBuffer(pIter) ==
    pIter.File # NoFile =>
        DataCapacity(pIter) >= VarintLen(Len(pIter.Key)) + Len(pIter.Key)

\* C31: a Next of an iterator that no host call fails returns OK, also on a
\* record larger than the buffer, which is then replaced by a larger one
\* before the rest of the record is read; whenever an iterator has a key the
\* buffer's capacity is at least the varint plus the record.
C31_BufferHoldsRecord ==
    [][IterStep =>
         /\ srtRc' = SQLITE_OK
         /\ OnMergePath' => \A i \in 0..(pSorter'.nTree - 1) :
                               KeyFitsBuffer(pSorter'.aIter[i])]_vars

\* what holds of C31: an iterator that has a key after a call that returned
\* OK holds it in a buffer of sufficient capacity
C31_KeyFitsWhenOk ==
    (OnMergePath /\ srtRc = SQLITE_OK /\ phase \in {"reading", "eof"}) =>
        \A i \in 0..(pSorter.nTree - 1) : KeyFitsBuffer(pSorter.aIter[i])

\* Rewind met a record that does not fit the buffer
C31_Witness ==
    /\ call.op = "Rewind"
    /\ call.failAt = 0
    /\ srtRc = GO_PANIC
    /\ \E i \in 1..Len(written) : VarintLen(Len(written[i])) + Len(written[i]) > ITER_ALLOC

(***************************************************************************)
(* Properties of the size of the tournament tree.                          *)
(***************************************************************************)
\* the step is a Rewind that went on to the merge: aIter and aTree are set
RewindMergeStep ==
    /\ phase = "writing"
    /\ call'.op = "Rewind"
    /\ pSorter.nPMA > 0
    /\ OnMergePath'

\* the PMAs in the file when Rewind sizes the tree: those written before,
\* and the one Rewind writes when records are in memory
PMAsAtRewind == pSorter.nPMA + (IF pSorter.pRecord # <<>> THEN 1 ELSE 0)

PowersOfTwo == {1, 2, 4, 8, 16}

SmallestPowerOfTwo(n) ==
    CHOOSE p \in PowersOfTwo : p >= n /\ \A q \in PowersOfTwo : q >= n => p <= q

\* aIter and aTree have nTree entries each, and nTree is n
TreeIsSized(s, n) ==
    /\ s.nTree = n
    /\ DOMAIN s.aIter = 0..(n - 1)
    /\ DOMAIN s.aTree = 0..(n - 1)

C32_WitnessOne ==
    /\ call.op = "Rewind"
    /\ OnMergePath
    /\ pSorter.nPMA = 1
    /\ pSorter.nTree = 2

(***************************************************************************)
(* Properties of the whole tournament tree.                                *)
(***************************************************************************)
\* the iterators below node i of a tree of n nodes
RECURSIVE IteratorsBelow(_, _)
IteratorsBelow(n, i) ==
    IF i >= n \div 2 THEN {(i - n \div 2) * 2, (i - n \div 2) * 2 + 1}
    ELSE IteratorsBelow(n, 2 * i) \cup IteratorsBelow(n, 2 * i + 1)

\* node i and the nodes above it
RECURSIVE NodesUpFrom(_)
NodesUpFrom(i) == IF i <= 0 THEN {} ELSE {i} \cup NodesUpFrom(i \div 2)

\* aTree[i] is an iterator below node i, and no iterator below node i that
\* is not at EOF has a smaller key
NodeHoldsWinner(s, i) ==
    LET w == s.aTree[i]
        below == IteratorsBelow(s.nTree, i)
    IN /\ w \in 0..(s.nTree - 1)
       /\ w \in below
       /\ \A j \in below :
             s.aIter[j].File # NoFile =>
                /\ s.aIter[w].File # NoFile
                /\ KeyCompare(s.aIter[w].Key, s.aIter[j].Key) <= 0

TreeHoldsWinners(s) == \A i \in 1..(s.nTree - 1) : NodeHoldsWinner(s, i)

\* the step is a Rewind that returned OK on the merge path, or a SorterNext
\* on the merge path
TreeStep ==
    \/ call'.op = "Rewind" /\ phase = "writing" /\ OnMergePath' /\ srtRc' = SQLITE_OK
    \/ call'.op = "Next" /\ phase = "reading" /\ OnMergePath

\* the nodes SorterNext may recompute: from the pair of the iterator it
\* advances up to the root
NextPath == NodesUpFrom((pSorter.nTree + pSorter.aTree[1]) \div 2)

RECURSIVE InsertBehindEqual(_, _)
InsertBehindEqual(q, r) ==
    IF q = <<>> THEN <<r>>
    ELSE IF KeyCompare(Head(q), r) <= 0 THEN <<Head(q)>> \o InsertBehindEqual(Tail(q), r)
    ELSE <<r>> \o q

\* the records of q in non-decreasing order, equal ones in the order of q
RECURSIVE StableSorted(_)
StableSorted(q) ==
    IF q = <<>> THEN <<>>
    ELSE InsertBehindEqual(StableSorted(SubSeq(q, 1, Len(q) - 1)), q[Len(q)])

\* the step is a Rewind of a sorter that has no PMA
SortStep ==
    /\ phase = "writing"
    /\ call'.op = "Rewind"
    /\ pSorter.nPMA = 0
    /\ srtRc' = SQLITE_OK

\* C34: vdbeSorterSort leaves the in-memory list in non-decreasing order with
\* the records that compare equal in the order in which they were passed to
\* SorterWrite.
C34_SortIsStable ==
    [][SortStep => pSorter'.pRecord = StableSorted(written)]_vars

\* a sort has moved records, and two that compare equal without being the
\* same bytes were written with others between them
C34_Witness ==
    /\ call.op = "Rewind"
    /\ srtRc = SQLITE_OK
    /\ pSorter.nPMA = 0
    /\ Len(written) = 4
    /\ written[1] = <<18>>
    /\ written[2] = <<1>>
    /\ written[4] = <<2>>
    /\ pSorter.pRecord = <<written[2], written[3], written[1], written[4]>>

(***************************************************************************)
(* Termination of Balance.                                                 *)
(***************************************************************************)
\* C35: every call of Balance returns: its loop is left after finitely many
\* passes, also when a pager write or a strategy call returned an error.
C35_BalanceTerminates == (btPc = "balance") ~> (btPc = "balanceReturn")

\* Balance is in its loop with an error code, the cursor on a root that is
\* not overfull: the pass does nothing and the loop is not left
C35_Spinning ==
    /\ btPc = "balance"
    /\ btRc # SQLITE_OK
    /\ btCur.iPage = 0
    /\ nOverflow(btPages[btCur.Pages[0]]) = 0

(***************************************************************************)
(* What MoveToChild does to the cursor.                                    *)
(***************************************************************************)
\* the step is a call of MoveToChild
MoveToChildStep == btOp'.name = "MoveToChild" /\ btPre'.cur = btCur

\* the call got its page: the cursor was above the depth limit and
\* GetPageAndInitialize returned SQLITE_OK
ChildLoaded ==
    /\ btCur.iPage < BTCURSOR_MAX_DEPTH - 1
    /\ GetPageAndInitialize(btPages, btOp'.key, btPre'.okGet) = SQLITE_OK

\* C36: MoveToChild changes the cursor only when the child page was loaded.
\* Failing on the depth limit or on GetPageAndInitialize it leaves iPage,
\* Pages and aiIdx as they were; with the page loaded iPage grows by one,
\* aiIdx[iPage] is 0 and the cached cell size and key validity are cleared,
\* also when the call then returns SQLITE_CORRUPT.
C36_MovesOnlyWhenLoaded ==
    [][MoveToChildStep =>
         IF ChildLoaded
         THEN /\ btCur'.iPage = btCur.iPage + 1
              /\ btCur'.Pages[btCur'.iPage] = btOp'.key
              /\ btCur'.aiIdx[btCur'.iPage] = 0
              /\ btCur'.nSize = 0
              /\ btCur'.validNKey = 0
              /\ \A d \in 0..btCur.iPage :
                    /\ btCur'.Pages[d] = btCur.Pages[d]
                    /\ btCur'.aiIdx[d] = btCur.aiIdx[d]
         ELSE /\ btRc' # SQLITE_OK
              /\ btCur'.iPage = btCur.iPage
              /\ btCur'.Pages = btCur.Pages
              /\ btCur'.aiIdx = btCur.aiIdx]_vars

\* the cursor held a parsed cell, went down to a child that was loaded and
\* the call returned SQLITE_CORRUPT
C36_Witness ==
    /\ btOp.name = "MoveToChild"
    /\ btPre.cur.nSize # 0
    /\ btPre.cur.validNKey # 0
    /\ btCur.iPage = btPre.cur.iPage + 1
    /\ btCur.nSize = 0
    /\ btRc = SQLITE_CORRUPT

\* a call failed on GetPageAndInitialize below the root
C36_WitnessNotLoaded ==
    /\ btOp.name = "MoveToChild"
    /\ ~btPre.okGet
    /\ btPre.cur.iPage > 0
    /\ btCur = btPre.cur
    /\ btRc = SQLITE_IOERR

\* a call failed on the depth limit
C36_WitnessDepth ==
    /\ btOp.name = "MoveToChild"
    /\ btPre.okGet
    /\ btPre.cur.iPage = BTCURSOR_MAX_DEPTH - 1
    /\ btCur = btPre.cur
    /\ btRc = SQLITE_CORRUPT

(***************************************************************************)
(* The order of the steps of Delete.                                       *)
(***************************************************************************)
\* the step is a call of Delete
DeleteStep == btPc = "idle" /\ btOp'.name = "Delete"

Logged(log, ev) == \E i \in 1..Len(log) : log[i].ev = ev

\* ev1 is in the log, before every ev2
LoggedBefore(log, ev1, ev2) ==
    \A j \in 1..Len(log) : log[j].ev = ev2 => \E i \in 1..(j - 1) : log[i].ev = ev1

\* the page the cursor is on when Delete is called, which holds the cell
DeleteTarget == btCur.Pages[btCur.iPage]

\* C37: a Delete that returns an error because the move to the predecessor,
\* saveAllCursors or the pager write of the target page failed has changed no
\* page and freed no overflow chain; and the leaf that supplies the
\* replacement loses its cell only after it was made writable and the
\* replacement was inserted into the internal page (on the page or, when it
\* does not fit, among the page's overflow cells).
C37_DeleteOrder ==
    [][DeleteStep =>
         /\ (btRc' # SQLITE_OK /\ ~Logged(btLog', "write")) =>
               /\ btPages' = btPages
               /\ ~Logged(btLog', "clear")
               /\ ~Logged(btLog', "drop")
               /\ ~Logged(btLog', "insert")
               /\ ~Logged(btLog', "dropLeaf")
         /\ LoggedBefore(btLog', "writeLeaf", "dropLeaf")
         /\ LoggedBefore(btLog', "insert", "dropLeaf")
         /\ \A p \in PageIds :
               (p # DeleteTarget /\ btPages'[p] # btPages[p]) =>
                  /\ btPages[p].leaf
                  /\ Logged(btLog', "dropLeaf")
                  /\ btPages'[p] = dropCell(btPages[p], nCell(btPages[p]) - 1)
                  /\ Len(Logical(btPages'[DeleteTarget])) = nCell(btPages[DeleteTarget])
                  /\ Logical(btPages'[DeleteTarget])[btCur.aiIdx[btCur.iPage] + 1].key
                        = FindCell(btPages[p], nCell(btPages[p]) - 1).key]_vars

\* a Delete on an internal page failed when the leaf was to be made writable
\* or the replacement inserted: the target has lost its cell, the leaf none
C37_Witness ==
    /\ btOp.name = "Delete"
    /\ btRc # SQLITE_OK
    /\ Logged(btLog, "drop")
    /\ ~Logged(btLog, "dropLeaf")
    /\ ~btPre.pages[btPre.cur.Pages[btPre.cur.iPage]].leaf
    /\ \A p \in PageIds :
          p # btPre.cur.Pages[btPre.cur.iPage] => btPages[p] = btPre.pages[p]

\* a Delete on an internal page failed on the pager write of the target,
\* after the cursor had moved to the predecessor
C37_WitnessEarly ==
    /\ btOp.name = "Delete"
    /\ btPc = "done"
    /\ btRc = SQLITE_IOERR
    /\ Logged(btLog, "save")
    /\ ~Logged(btLog, "write")
    /\ btCur.iPage > btPre.cur.iPage
    /\ btPages = btPre.pages

\* a Delete on an internal page took its replacement from the leaf
C37_WitnessReplaced ==
    /\ btOp.name = "Delete"
    /\ Logged(btLog, "dropLeaf")
    /\ btPc = "balance"
    /\ balInfo.caller = "delete1"
    /\ balInfo.last = "none"

(***************************************************************************)
(* Progress of the recursive mutex.                                        *)
(***************************************************************************)
\* the thread waits in pthread_mutex_lock for a mutex that another holds
BlockedInLock(t) == thr[t].pc = "lockMutex" /\ mtx.mutex # NoThread

\* some thread has just obtained the pthread mutex
JustEntered == \E u \in Threads : thr[u].pc \in {"lockSetOwner", "trySetOwner"}

\* every thread that enters the mutex exits it as often as it entered
EveryoneExits == \A u \in Threads : (entered[u] > 0) ~> (entered[u] = 0)

\* nRef > 0 only while owner is the thread that holds the pthread mutex
OwnerHoldsMutex == mtx.nRef > 0 => (mtx.owner # NoThread /\ mtx.owner = mtx.mutex)

\* C38: under weakly fair scheduling, if every thread that enters the mutex
\* exits it as many times as it entered, then whenever a thread is blocked in
\* pthreadLock some thread eventually enters; and in every reachable state
\* nRef > 0 implies that owner is the thread holding the pthread mutex.
C38_DeadlockFree ==
    /\ []OwnerHoldsMutex
    /\ EveryoneExits => \A t \in Threads : BlockedInLock(t) ~> JustEntered

\* a thread is blocked in pthreadLock while the other is inside twice over
C38_Witness ==
    \E t \in Threads, u \in Threads :
        /\ t # u
        /\ BlockedInLock(t)
        /\ mtx.mutex = u
        /\ mtx.owner = u
        /\ mtx.nRef = 2

\* a thread that was blocked has entered after the other one left
C38_WitnessEntered ==
    \E t \in Threads, u \in Threads :
        /\ t # u
        /\ thr[t].pc = "lockSetOwner"
        /\ thr[t].op = "Lock"
        /\ thr[u].op = "Unlock"
        /\ thr[u].pc = "idle"
        /\ entered[u] = 0

(***************************************************************************)
(* The lengths sqlite3GetToken returns to the loop of Run.                 *)
(***************************************************************************)
\* C39: for every non-empty input sqlite3GetToken returns a length n with
\* 1 <= n <= the characters left before the terminator, so the index of Run
\* strictly increases and never passes the end of the input.
C39_TokenWithinInput ==
    [][(run.pc = "loop" /\ run' # run /\ run.i < Len(run.zSql) /\ ~db.mallocFailed) =>
          /\ run'.sLastToken.n >= 1
          /\ run'.sLastToken.n <= Len(run.zSql) - run.i
          /\ run'.i > run.i
          /\ run'.i <= Len(run.zSql)]_vars

\* the index of Run is past the end of the text
C39_PastEnd == run.i > Len(run.zSql)

\* what holds: every token has at least one character and at most one more
\* than are left, and the index strictly increases
C39_TokenAtMostOnePast ==
    [][(run.pc = "loop" /\ run' # run /\ run.i < Len(run.zSql) /\ ~db.mallocFailed) =>
          /\ run'.sLastToken.n >= 1
          /\ run'.i = run.i + run'.sLastToken.n
          /\ run'.i <= Len(run.zSql) + 1]_vars

\* Run returns on every text
C39_RunReturns == (run.pc = "loop") ~> (run.pc = "returned")

(***************************************************************************)
(* SorterClose in every state of the sorter.                               *)
(***************************************************************************)
\* C40: SorterClose, called in any state of the sorter, completes without
\* fault and leaves pCsr.pSorter nil.
C40_CloseCompletes ==
    [][call'.op = "Close" => (srtRc' = SQLITE_OK /\ pSorter' = NilSorter)]_vars

\* SorterClose was called on a sorter with records in memory and PMAs on
\* file, and ended in a run-time panic with the sorter still attached
C40_ClosePanics ==
    /\ call.op = "Close"
    /\ srtRc = GO_PANIC
    /\ pSorter # NilSorter
    /\ pSorter.nPMA > 0
    /\ pSorter.pRecord # <<>>

====
